---- MODULE Spec2Model ----
(***************************************************************************)
(* Rakshak-ai: the packet-capture service (services/pcap_service.py,       *)
(* routes/pcap_routes.py), the upload / auto-block pipeline (app.py), the  *)
(* AI threat-intelligence service (services/gemini_service.py), the        *)
(* geolocation cache (ip_services.py), the capture file path               *)
(* (utils/pcap_utils.py) and the alert priority (app.py,                   *)
(* models_mongodb.py).                                                     *)
(*                                                                         *)
(* Request handlers and background threads interleave.  One step is one    *)
(* critical section of the capture service's mutex (`with self.lock:`,     *)
(* taken and released within the step, so the sections exclude each other) *)
(* or one run of code between two such sections that touches the shared    *)
(* state (the document store, the subprocess) once.                        *)
(***************************************************************************)
EXTENDS Integers, Sequences, FiniteSets, TLC

(***************************************************************************)
(* Bounds of the model.                                                    *)
(***************************************************************************)
MaxCaptures == 3      \* capture ids of the model
LifeCaptures == 2     \* captures started in the specification of the whole service

(***************************************************************************)
(* Program constants.  MAX_CONCURRENT_CAPTURES is read from the            *)
(* environment (default "5"); the model runs the service configured with   *)
(* MAX_CONCURRENT_CAPTURES=2.                                              *)
(***************************************************************************)
MAX_CONCURRENT_CAPTURES == 2

CaptureIds == 1..MaxCaptures
\* Two request threads of the server: enough for every pairwise race.
Workers == {"w1", "w2"}
NoId == 0

Terminal == {"stopped", "completed", "failed"}
Status == {"running"} \cup Terminal

VARIABLES
    captures,         \* captures_collection: capture id -> status, "absent" = no document
    active_captures,  \* self.active_captures: the ids that have a process_info entry
    process,          \* the subprocess of a capture: "none", "live", "exited"
    nextId,           \* the next fresh capture id (uuid4)
    thr,              \* request threads: position and locals of the running handler
    timer,            \* captures whose _monitor_capture_duration thread is sleeping
    recount,          \* captures with a pending asynchronous packet recount thread
    not_running       \* ids for which stop_capture raised "is not running"

pcapVars == <<captures, active_captures, process, nextId, thr, timer, recount,
              not_running>>

VARIABLES
    alerts_collection,     \* src_ip -> the ages of its Alert documents, oldest first:
                           \* utcnow() - timestamp in hours, not counted further
                           \* once the document has left the auto-block window
    blocklist_collection,  \* the Blocklist-Entry documents, in insertion order
    whitelist_collection,  \* the Whitelist-Entry documents, in insertion order
    ip_blocked,            \* src_ip -> number of ip_blocked events broadcast
    up                     \* the threads serving /api/upload and POST /api/blocklist

uploadVars == <<alerts_collection, blocklist_collection, whitelist_collection,
                ip_blocked, up>>

VARIABLES
    api_key,                  \* self.api_key is set (GEMINI_API_KEY non-empty)
    request_count,            \* self.request_count
    request_window_start,     \* self.request_window_start, in seconds
    clock,                    \* time.time() / utcnow(), in seconds
    admitted,                 \* the times, less than a window ago, of the calls
                              \* _check_rate_limit let through without sleeping
    threat_intel_collection,  \* the Gemini-Threat-Intel documents, in insertion order
    previous,                 \* cache key -> the latest call for it that returned,
                              \* at most CACHE_TTL ago
    gem                       \* the callers of the service: position and locals

geminiVars == <<api_key, request_count, request_window_start, clock, admitted,
                threat_intel_collection, previous, gem>>

VARIABLES
    ip_geolocation,   \* the geolocation cache row of the address looked up
    geo               \* the latest get_ip_geolocation call: what it found, what the
                      \* API answered, what it returned

geoVars == <<ip_geolocation, geo>>

VARIABLES
    received,         \* the latest file sent to /api/upload and what became of it
    today             \* the date of datetime.utcnow(), in days since the start

fileVars == <<received>>
clockVars == <<today>>

VARIABLES
    filepath,         \* the path handed to sanitize_file_path
    file_path,        \* what sanitize_file_path came to: a path or ValueError
    written,          \* the file the capture subprocess is told to write
    confidence,       \* the confidence of a finding
    priority          \* the priority labels computed for it

fnVars == <<filepath, file_path, written, confidence, priority>>

VARIABLES
    captures_collection,  \* the capture documents as the cleanup sweep reads them
    disk,                 \* the capture files that exist in the storage directory
    cleanup               \* the position of a call of cleanup_old_captures

sweepVars == <<captures_collection, disk, cleanup>>

VARIABLES
    alert_documents       \* the alerts as the PATCH and DELETE routes see them

patchVars == <<alert_documents>>

VARIABLES
    filter_string,        \* the filter handed to validate_filter
    validated             \* what validate_filter returned for it

filterVars == <<filter_string, validated>>

VARIABLES
    flush_thread          \* the captures whose flush-monitor thread is alive

monitorVars == <<flush_thread>>

VARIABLES
    lock,                 \* self.lock: the thread that holds it, "free" if none
    locker                \* the threads of the capture service at its with-statements

lockVars == <<lock, locker>>

VARIABLES
    limiter,              \* the threads inside _check_rate_limit: position and locals
    since_reset           \* the calls that returned since request_window_start was set

limiterVars == <<limiter, since_reset>>

VARIABLES
    listing               \* the alerts GET /api/alerts reads, the latest request
                          \* and its answer

listVars == <<listing>>

lastVars == <<lockVars, limiterVars, listVars>>

laterVars == <<sweepVars, patchVars, filterVars, monitorVars, lastVars>>

vars ==
    <<pcapVars, uploadVars, geminiVars, geoVars, fnVars, fileVars, clockVars,
      laterVars>>

\* What the steps of one component leave alone: the other components.
notPcap ==
    <<uploadVars, geminiVars, geoVars, fnVars, fileVars, clockVars,
      laterVars>>
notUpload ==
    <<pcapVars, geminiVars, geoVars, fnVars, fileVars, clockVars,
      laterVars>>
notGemini ==
    <<pcapVars, uploadVars, geoVars, fnVars, fileVars, clockVars,
      laterVars>>
notGeo ==
    <<pcapVars, uploadVars, geminiVars, fnVars, fileVars, clockVars,
      laterVars>>
notFn ==
    <<pcapVars, uploadVars, geminiVars, geoVars, fileVars, clockVars,
      laterVars>>
notFile ==
    <<pcapVars, geminiVars, geoVars, fnVars, clockVars,
      laterVars>>
earlyVars == <<pcapVars, uploadVars, geminiVars, geoVars, fnVars, fileVars>>
notSweep == <<earlyVars, patchVars, filterVars, monitorVars, lastVars>>
notPatch == <<earlyVars, sweepVars, filterVars, monitorVars, lastVars>>
notFilter == <<earlyVars, clockVars, sweepVars, patchVars, monitorVars, lastVars>>
\* What the capture service and its flush-monitor threads leave alone.
notMonitor ==
    <<uploadVars, geminiVars, geoVars, fnVars, fileVars, clockVars,
      sweepVars, patchVars, filterVars, lastVars>>
\* The components settled before the ones that follow.
settledVars ==
    <<earlyVars, clockVars, sweepVars, patchVars, filterVars, monitorVars>>
notLock == <<settledVars, limiterVars, listVars>>
notList == <<settledVars, lockVars, limiterVars>>
\* What the steps of _check_rate_limit leave alone: the rest of the AI
\* service and the other components.
notLimiter ==
    <<pcapVars, uploadVars, geoVars, fnVars, fileVars, clockVars, sweepVars,
      patchVars, filterVars, monitorVars, lockVars, listVars, api_key, admitted,
      threat_intel_collection, previous, gem>>

IdleThread == [pc |-> "idle", op |-> "none", cid |-> NoId, snapAll |-> {},
               res |-> "none", dur |-> FALSE, late |-> FALSE]

PcapInit ==
    /\ captures = [c \in CaptureIds |-> "absent"]
    /\ active_captures = {}
    /\ process = [c \in CaptureIds |-> "none"]
    /\ nextId = 1
    /\ thr = [w \in Workers |-> IdleThread]
    /\ timer = {}
    /\ recount = {}
    /\ not_running = {}

(***************************************************************************)
(* Document-store primitives on the captures collection.                   *)
(***************************************************************************)
\* update_one({"capture_id": c}, {"$set": {"status": s}}): no match, no change.
update_status(coll, c, s) ==
    IF coll[c] = "absent" THEN coll ELSE [coll EXCEPT ![c] = s]

\* start_capture line 70: entries whose process.poll() is None
active_count(act, proc) == Cardinality({c \in act : proc[c] = "live"})

\* The ceiling test with > in place of >=.
limit_reached_gt(n) == n > MAX_CONCURRENT_CAPTURES

\* start_capture line 71: the ceiling test
limit_reached(n) == n >= MAX_CONCURRENT_CAPTURES

(***************************************************************************)
(* start_capture                                                           *)
(***************************************************************************)
\* Ids are handed out by uuid4; the model stops accepting start requests
\* when every id up to `cap` is already spoken for by a start in progress.
StartsBeforeInsert ==
    Cardinality({w \in Workers : thr[w].pc = "start_insert"})

\* lines 60-76: validate_interface, validate_filter, the ceiling test under
\* the lock, the duration ceiling.  The first test that fails answers.
start_validate(ifaceOk, filterOk, durOk) ==
    IF ~ifaceOk THEN "invalid_interface"
    ELSE IF ~filterOk THEN "invalid_filter"
    ELSE IF limit_reached(active_count(active_captures, process))
    THEN "max_concurrent"
    ELSE IF ~durOk THEN "duration_exceeds"
    ELSE "ok"

\* `durations`: whether the requests of the specification may carry a
\* duration limit (TRUE) or carry none (FALSE).
BeginStart(w, cap, durations) ==
    /\ thr[w].pc = "idle"
    /\ nextId + StartsBeforeInsert <= cap
    /\ \E ifaceOk \in BOOLEAN, filterOk \in BOOLEAN, durOk \in BOOLEAN,
          d \in {FALSE, durations} :
          LET v == start_validate(ifaceOk, filterOk, durOk) IN
          thr' = [thr EXCEPT ![w] =
                    IF v = "ok"
                    THEN [IdleThread EXCEPT !.op = "start", !.pc = "start_insert",
                                            !.dur = d]
                    ELSE [IdleThread EXCEPT !.op = "start", !.pc = "done",
                                            !.res = v]]
    /\ UNCHANGED <<captures, active_captures, process, nextId, timer, recount,
                   not_running>>
    /\ UNCHANGED notPcap

\* lines 211-222: the except branch of start_capture
StartFailed(w) ==
    /\ captures' = update_status(captures, thr[w].cid, "failed")
    /\ thr' = [thr EXCEPT ![w].pc = "done", ![w].res = "start_failed"]

\* lines 78-129: a fresh id, insert_one of the "running" document, then
\* subprocess.Popen, which either raises or leaves a live subprocess
StartInsert(w) ==
    /\ thr[w].pc = "start_insert"
    /\ nextId' = nextId + 1
    /\ \/ /\ captures' = [captures EXCEPT ![nextId] = "failed"]
          /\ thr' = [thr EXCEPT ![w].pc = "done", ![w].res = "start_failed",
                                ![w].cid = nextId]
          /\ UNCHANGED process
       \/ /\ captures' = [captures EXCEPT ![nextId] = "running"]
          /\ process' = [process EXCEPT ![nextId] = "live"]
          /\ thr' = [thr EXCEPT ![w].pc = "start_track", ![w].cid = nextId]
    /\ UNCHANGED <<active_captures, timer, recount, not_running>>
    /\ UNCHANGED notPcap

\* lines 132-149: after the 0.5 s sleep an exited subprocess is a launch
\* failure; a live one is entered into the active table under the lock
StartTrack(w) ==
    /\ thr[w].pc = "start_track"
    /\ IF process[thr[w].cid] # "live"
       THEN /\ StartFailed(w)
            /\ UNCHANGED active_captures
       ELSE /\ active_captures' = active_captures \cup {thr[w].cid}
            /\ thr' = [thr EXCEPT ![w].pc = "start_finish"]
            /\ UNCHANGED captures
    /\ UNCHANGED <<process, nextId, timer, recount, not_running>>
    /\ UNCHANGED notPcap

\* lines 151-209: record the pid, start the monitor threads, answer "running";
\* a step that raises here (the update_one, a thread that cannot be started)
\* lands in the except branch as well.  `faults`: whether the specification
\* lets such steps raise.
StartThreads(w, faults) ==
    /\ thr[w].pc = "start_finish"
    /\ \E raises \in {FALSE, faults} :
          IF raises
          THEN /\ StartFailed(w)
               /\ UNCHANGED timer
          ELSE /\ timer' = IF thr[w].dur THEN timer \cup {thr[w].cid} ELSE timer
               /\ thr' = [thr EXCEPT ![w].pc = "done", ![w].res = "running"]
               /\ UNCHANGED captures
    /\ UNCHANGED <<active_captures, process, nextId, recount, not_running>>

\* The same where the flush-monitor thread is of no account: it writes
\* nothing the service reads.
StartFinish(w, faults) ==
    /\ StartThreads(w, faults)
    /\ UNCHANGED notPcap

\* The same with the flush-monitor thread it starts (lines 186-191).
StartFinishMonitored(w) ==
    /\ StartThreads(w, FALSE)
    /\ flush_thread' = flush_thread \cup {thr[w].cid}
    /\ UNCHANGED notMonitor

\* monitor_and_flush with only the entry tested.
monitor_breaks_entry(c) == c \notin active_captures

\* monitor_and_flush lines 165-172, under the lock: the tests that break the
\* loop
monitor_breaks(c) == c \notin active_captures \/ process[c] # "live"

\* monitor_and_flush: one turn of `while True:` after the sleep; a turn that
\* does not break touches the file's modification time and no state.
monitor_and_flush(c) ==
    /\ c \in flush_thread
    /\ flush_thread' = IF monitor_breaks(c) THEN flush_thread \ {c}
                       ELSE flush_thread
    /\ UNCHANGED pcapVars
    /\ UNCHANGED notMonitor

(***************************************************************************)
(* stop_capture                                                            *)
(***************************************************************************)
StopOutcomes(faults) ==
    IF faults THEN {"ok", "raise_live", "raise_dead"} ELSE {"ok"}

\* stop_capture without the test of line 292: a call for a capture that has
\* no entry goes through the bookkeeping of a stop all the same.
stop_capture_untested(c, how) ==
    IF c \in active_captures /\ process[c] # "live"
    THEN [captures |-> captures, active |-> active_captures \ {c},
          process |-> process, recount |-> recount, res |-> "not_running"]
    ELSE IF how = "ok"
    THEN [captures |-> update_status(captures, c, "stopped"),
          active |-> active_captures \ {c},
          process |-> IF process[c] = "live"
                      THEN [process EXCEPT ![c] = "exited"] ELSE process,
          recount |-> recount \cup {c}, res |-> "stopped"]
    ELSE [captures |-> update_status(captures, c, "failed"),
          active |-> active_captures,
          process |-> IF how = "raise_live" \/ process[c] # "live" THEN process
                      ELSE [process EXCEPT ![c] = "exited"],
          recount |-> recount, res |-> "stop_failed"]

\* lines 291-482, the whole body under the lock.  `how` is what the kill
\* sequence and the bookkeeping after it do: "ok" runs to the return;
\* "raise_live" is an exception with the subprocess still alive (the last
\* process.wait(timeout=1) timing out), "raise_dead" one after it has died.
stop_capture(c, how) ==
    IF c \notin active_captures
    THEN [captures |-> captures, active |-> active_captures, process |-> process,
          recount |-> recount, res |-> "not_found"]
    ELSE IF process[c] # "live"
    THEN [captures |-> captures, active |-> active_captures \ {c},
          process |-> process, recount |-> recount, res |-> "not_running"]
    ELSE IF how = "ok"
    THEN [captures |-> update_status(captures, c, "stopped"),
          active |-> active_captures \ {c},
          process |-> [process EXCEPT ![c] = "exited"],
          recount |-> recount \cup {c}, res |-> "stopped"]
    ELSE [captures |-> update_status(captures, c, "failed"),
          active |-> active_captures,
          process |-> IF how = "raise_live" THEN process
                      ELSE [process EXCEPT ![c] = "exited"],
          recount |-> recount, res |-> "stop_failed"]

\* What one call of stop_capture(c) does to the shared state.
StopEffect(c, r) ==
    /\ captures' = r.captures
    /\ active_captures' = r.active
    /\ process' = r.process
    /\ recount' = r.recount
    /\ not_running' = IF r.res = "not_running" THEN not_running \cup {c}
                      ELSE not_running

\* POST /api/pcap/stop/<capture_id>
Stop(w, faults) ==
    /\ thr[w].pc = "idle"
    /\ \E c \in 1..(nextId - 1), how \in StopOutcomes(faults) :
          LET r == stop_capture(c, how) IN
          /\ StopEffect(c, r)
          /\ thr' = [thr EXCEPT ![w] = [IdleThread EXCEPT !.op = "stop", !.cid = c,
                                           !.pc = "done", !.res = r.res]]
    /\ UNCHANGED <<nextId, timer>>
    /\ UNCHANGED notPcap

\* The delete route stops a capture it read as running and swallows what
\* stop_capture raises (pcap_routes.py 177-181).
DeleteStop(w, faults) ==
    /\ thr[w].pc = "delete_stop"
    /\ \E how \in StopOutcomes(faults) :
          LET r == stop_capture(thr[w].cid, how) IN
          /\ StopEffect(thr[w].cid, r)
          /\ thr' = [thr EXCEPT ![w].pc = "delete_doc"]
    /\ UNCHANGED <<nextId, timer>>
    /\ UNCHANGED notPcap

\* _monitor_capture_duration: sleep(duration), then stop_capture; whatever
\* stop_capture raises is logged.
TimerStop(c, faults) ==
    /\ c \in timer
    /\ \E how \in StopOutcomes(faults) : StopEffect(c, stop_capture(c, how))
    /\ timer' = timer \ {c}
    /\ UNCHANGED <<nextId, thr>>
    /\ UNCHANGED notPcap

(***************************************************************************)
(* get_capture_status(capture_id)                                          *)
(***************************************************************************)
\* After the status lookup the request either ends or, in the delete route,
\* goes on: stop if the capture reads "running", then delete the document.
AfterStatus(op, res) ==
    IF op = "status" \/ res \in {"not_found", "error500"} THEN "done"
    ELSE IF res = "running" THEN "delete_stop"
    ELSE "delete_doc"

\* lines 494-501: find_one outside the lock; a "running" document sends the
\* thread to the lock.  The delete route (pcap_routes.py 174) starts the same way.
BeginStatus(w) ==
    /\ thr[w].pc = "idle"
    /\ \E c \in 1..(nextId - 1), o \in {"status", "delete"} :
          LET res == IF captures[c] = "absent" THEN "not_found" ELSE captures[c]
              t == [IdleThread EXCEPT !.op = o, !.cid = c,
                                      !.late = (c \in not_running)]
          IN  thr' = [thr EXCEPT ![w] =
                        IF captures[c] = "running"
                        THEN [t EXCEPT !.pc = "status_lock"]
                        ELSE [t EXCEPT !.res = res, !.pc = AfterStatus(o, res)]]
    /\ UNCHANGED <<captures, active_captures, process, nextId, timer, recount,
                   not_running>>
    /\ UNCHANGED notPcap

\* lines 503-506: the capture is tracked and its subprocess has exited
process_ended(c) == c \in active_captures /\ process[c] # "live"

\* lines 502-559 under the lock: reconcile, read the document again, report.
\* A document deleted meanwhile makes the second find_one return None and
\* the handler fail.
StatusBody(w) ==
    /\ thr[w].pc = "status_lock"
    /\ LET c == thr[w].cid
           ended == process_ended(c)
           coll == IF ended THEN update_status(captures, c, "completed")
                   ELSE captures
           res == IF ~ended THEN "running"
                  ELSE IF coll[c] = "absent" THEN "error500" ELSE coll[c]
       IN  /\ captures' = coll
           /\ active_captures' = IF ended THEN active_captures \ {c}
                                 ELSE active_captures
           /\ recount' = IF ended THEN recount \cup {c} ELSE recount
           /\ thr' = [thr EXCEPT ![w].res = res,
                                 ![w].pc = AfterStatus(thr[w].op, res)]
    /\ UNCHANGED <<process, nextId, timer, not_running>>
    /\ UNCHANGED notPcap

(***************************************************************************)
(* get_capture_status() for all captures                                   *)
(***************************************************************************)
\* line 562: the list is read before the lock is taken; only the documents
\* read as "running" are looked at afterwards.
BeginStatusAll(w) ==
    /\ thr[w].pc = "idle"
    /\ thr' = [thr EXCEPT ![w] =
                 [IdleThread EXCEPT !.op = "status_all", !.pc = "all_lock",
                                    !.snapAll = {c \in CaptureIds :
                                                    captures[c] = "running"}]]
    /\ UNCHANGED <<captures, active_captures, process, nextId, timer, recount,
                   not_running>>
    /\ UNCHANGED notPcap

\* lines 568-605: a capture of the list is marked completed unless it is
\* tracked with a live subprocess
marks_completed(c) == ~(c \in active_captures /\ process[c] = "live")

AllBody(w) ==
    /\ thr[w].pc = "all_lock"
    /\ captures' = [c \in CaptureIds |->
                      IF c \in thr[w].snapAll /\ marks_completed(c)
                      THEN update_status(captures, c, "completed")[c]
                      ELSE captures[c]]
    /\ active_captures' = active_captures \
                             {c \in thr[w].snapAll : marks_completed(c)}
    /\ thr' = [thr EXCEPT ![w].pc = "done", ![w].res = "ok", ![w].snapAll = {}]
    /\ UNCHANGED <<process, nextId, timer, recount, not_running>>
    /\ UNCHANGED notPcap

(***************************************************************************)
(* DELETE /api/pcap/delete/<capture_id>, its last step (line 192)          *)
(***************************************************************************)
DeleteDoc(w) ==
    /\ thr[w].pc = "delete_doc"
    /\ captures' = [captures EXCEPT ![thr[w].cid] = "absent"]
    /\ thr' = [thr EXCEPT ![w].pc = "done", ![w].res = "deleted"]
    /\ UNCHANGED <<active_captures, process, nextId, timer, recount, not_running>>
    /\ UNCHANGED notPcap

\* The handler has answered; the thread takes the next request.
Return(w) ==
    /\ thr[w].pc = "done"
    /\ thr' = [thr EXCEPT ![w] = IdleThread]
    /\ UNCHANGED <<captures, active_captures, process, nextId, timer, recount,
                   not_running>>
    /\ UNCHANGED notPcap

(***************************************************************************)
(* The environment: a capture subprocess exits on its own (packet limit    *)
(* reached, interface gone); a recount thread writes packet_count.         *)
(***************************************************************************)
ProcExit(c) ==
    /\ process[c] = "live"
    /\ process' = [process EXCEPT ![c] = "exited"]
    /\ UNCHANGED <<captures, active_captures, nextId, thr, timer, recount,
                   not_running>>
    /\ UNCHANGED notPcap

\* count_packets_async / count_async: update_one of packet_count only
Recount(c) ==
    /\ c \in recount
    /\ recount' = recount \ {c}
    /\ UNCHANGED <<captures, active_captures, process, nextId, thr, timer,
                   not_running>>
    /\ UNCHANGED notPcap

PcapNext ==
    \/ \E w \in Workers :
          \/ BeginStart(w, LifeCaptures, TRUE) \/ StartInsert(w) \/ StartTrack(w)
          \/ StartFinish(w, FALSE) \/ Stop(w, FALSE) \/ DeleteStop(w, FALSE)
          \/ BeginStatus(w) \/ StatusBody(w)
          \/ BeginStatusAll(w) \/ AllBody(w)
          \/ DeleteDoc(w) \/ Return(w)
    \/ \E c \in CaptureIds :
          TimerStop(c, FALSE) \/ ProcExit(c) \/ Recount(c)

(***************************************************************************)
(* The upload / auto-block pipeline (app.py)                               *)
(***************************************************************************)
\* Bounds of the pipeline's model.
MaxDay == 1           \* days that pass
MaxAlerts == 2        \* Alert documents inserted, all uploads together
MaxFindings == 2      \* findings run_all returns for one record
MaxBurst == 3         \* Alert documents inserted where a block falls inside a record

\* Program constants.  AUTO_BLOCK_THRESHOLD is read from the environment
\* (default "5"); the model runs the server with AUTO_BLOCK_THRESHOLD=2.
AUTO_BLOCK_THRESHOLD == 2
AUTO_BLOCK_WINDOW_HOURS == 1
\* upload line 469: the confidence from which an alert is pushed
NOTIFY_CONFIDENCE == 80

\* r.get('src_ip', ''): a record without a source address carries ''.
SrcIps == {"", "10.0.0.1"}
RealIps == SrcIps \ {""}
\* Confidences of findings: either side of NOTIFY_CONFIDENCE, or only
\* findings that are pushed.
Confidences == {NOTIFY_CONFIDENCE - 1, NOTIFY_CONFIDENCE}
HighConfidences == {NOTIFY_CONFIDENCE}
Uploaders == {"u1", "u2"}

IdleUploader == [pc |-> "idle", op |-> "none", ip |-> "", todo |-> <<>>,
                 new_alerts |-> <<>>, src_ips |-> <<>>, sent |-> <<>>, ei |-> 0,
                 attack_count |-> 0, found |-> FALSE, res |-> "none"]

\* The server has started: create_indexes has run on empty collections.
UploadInit ==
    /\ alerts_collection = [ip \in SrcIps |-> <<>>]
    /\ blocklist_collection = <<>>
    /\ whitelist_collection = <<>>
    /\ ip_blocked = [ip \in RealIps |-> 0]
    /\ up = [u \in Uploaders |-> IdleUploader]

\* find_one({"ip": ip}): the position of the first document of the
\* collection with that ip, 0 for None
find_one(coll, ip) ==
    IF \E i \in DOMAIN coll : coll[i].ip = ip
    THEN CHOOSE i \in DOMAIN coll :
            coll[i].ip = ip /\ \A j \in DOMAIN coll : coll[j].ip = ip => i <= j
    ELSE 0

\* find_one({"ip": ip, "is_active": True}) is not None, False for an empty ip
has_active(coll, ip) ==
    ip # "" /\ \E i \in DOMAIN coll : coll[i].ip = ip /\ coll[i].is_active

check_ip_blocked(ip) == has_active(blocklist_collection, ip)

check_ip_whitelisted(ip) == has_active(whitelist_collection, ip)

\* insert_one without the unique index on ip.
insert_unindexed(coll, doc) == [ok |-> TRUE, coll |-> Append(coll, doc)]

\* insert_one into a collection with the unique index on ip
\* (create_indexes): DuplicateKeyError when a document has that ip
insert_one(coll, doc) ==
    IF find_one(coll, doc.ip) # 0
    THEN [ok |-> FALSE, coll |-> coll]
    ELSE [ok |-> TRUE, coll |-> Append(coll, doc)]

\* should_auto_block lines 261-265: the alerts of ip with
\* timestamp >= utcnow() - AUTO_BLOCK_WINDOW_HOURS
count_documents(ip) ==
    Cardinality({i \in DOMAIN alerts_collection[ip] :
                    alerts_collection[ip][i] <= AUTO_BLOCK_WINDOW_HOURS})

\* The threshold test with > in place of >=.
meets_threshold_gt(n) == n > AUTO_BLOCK_THRESHOLD

\* should_auto_block line 267
meets_threshold(n) == n >= AUTO_BLOCK_THRESHOLD

\* What a socketio.emit of the code's try/except ladder comes to: "sent",
\* the event goes out (at the first call, or at the second one after a
\* TypeError or AttributeError); "lost", both calls raise and the error is
\* logged; "raised", the first call raises another exception.  `faults`:
\* whether the specification lets emit raise.
EmitOutcomes(faults) == IF faults THEN {"sent", "lost", "raised"} ELSE {"sent"}

RECURSIVE TotalLen(_, _)
TotalLen(f, S) ==
    IF S = {} THEN 0
    ELSE LET x == CHOOSE y \in S : TRUE IN Len(f[x]) + TotalLen(f, S \ {x})

\* The alerts in the collection and the findings still to be inserted.
AlertsStored == TotalLen(alerts_collection, SrcIps)
AlertsPending == TotalLen([u \in Uploaders |-> up[u].todo], Uploaders)

\* datetime.utcnow() as stored in created_at: its date
utcnow == today

\* BlocklistDocument.create, with the reason of its two callers
BlocklistDocument(ip, auto, n) ==
    [ip |-> ip,
     reason |-> IF auto THEN "Auto-blocked" ELSE "Manually blocked",
     auto_blocked |-> auto, attack_count |-> n, is_active |-> TRUE,
     created_at |-> utcnow]

\* WhitelistDocument.create
WhitelistDocument(ip) ==
    [ip |-> ip, reason |-> "Manually whitelisted", is_active |-> TRUE,
     created_at |-> utcnow]

\* `serial`: the specification serves one request at a time.
MayBegin(u, serial) ==
    /\ up[u].pc = "idle"
    /\ serial => \A v \in Uploaders : up[v].pc = "idle"

(***************************************************************************)
(* POST /api/upload, lines 425-493                                         *)
(***************************************************************************)
\* lines 422-431: the file parsed to a non-empty list of records; the loop
\* takes the first record
BeginUpload(u, serial) ==
    /\ MayBegin(u, serial)
    /\ \E ip \in SrcIps :
          up' = [up EXCEPT ![u] = [IdleUploader EXCEPT !.op = "upload", !.ip = ip,
                                                       !.pc = "check_wl"]]
    /\ UNCHANGED <<alerts_collection, blocklist_collection, whitelist_collection,
                   ip_blocked>>
    /\ UNCHANGED notUpload

\* The record is done with: the loop variable is dead until the next record.
NextTurn(t) == [t EXCEPT !.pc = "loop", !.ip = "", !.todo = <<>>]

\* line 430: the loop takes the next record
NextRecord(u) ==
    /\ up[u].pc = "loop"
    /\ \E ip \in SrcIps : up' = [up EXCEPT ![u].ip = ip, ![u].pc = "check_wl"]
    /\ UNCHANGED <<alerts_collection, blocklist_collection, whitelist_collection,
                   ip_blocked>>
    /\ UNCHANGED notUpload

\* line 434, first operand
CheckWhitelisted(u) ==
    /\ up[u].pc = "check_wl"
    /\ up' = [up EXCEPT ![u] = IF check_ip_whitelisted(up[u].ip) THEN NextTurn(@)
                                ELSE [@ EXCEPT !.pc = "check_bl"]]
    /\ UNCHANGED <<alerts_collection, blocklist_collection, whitelist_collection,
                   ip_blocked>>
    /\ UNCHANGED notUpload

\* The findings of one record: (note, confidence) pairs, here the
\* confidences, drawn from `confs`.
FindingLists(confs) == UNION {[1..n -> confs] : n \in 0..MaxFindings}

\* detectors.run_all(record): what the detectors may return where the
\* alerts of the model, stored and to come, number `cap` at most
run_all_within(confs, cap) ==
    {f \in FindingLists(confs) : AlertsStored + AlertsPending + Len(f) <= cap}

run_all(confs) == run_all_within(confs, MaxAlerts)

\* line 434, second operand, and line 438
CheckBlockedWithin(u, confs, cap) ==
    /\ up[u].pc = "check_bl"
    /\ IF check_ip_blocked(up[u].ip)
       THEN up' = [up EXCEPT ![u] = NextTurn(@)]
       ELSE \E f \in run_all_within(confs, cap) :
               up' = [up EXCEPT ![u] = IF f = <<>> THEN NextTurn(@)
                                       ELSE [@ EXCEPT !.todo = f, !.pc = "insert"]]
    /\ UNCHANGED <<alerts_collection, blocklist_collection, whitelist_collection,
                   ip_blocked>>
    /\ UNCHANGED notUpload

CheckBlocked(u, confs) == CheckBlockedWithin(u, confs, MaxAlerts)

\* The insert with the evaluation left to the end of the record.
InsertAlert_unchecked(u) ==
    /\ up[u].pc = "insert"
    /\ alerts_collection' = [alerts_collection EXCEPT
                                ![up[u].ip] = Append(@, 0)]
    /\ up' = [up EXCEPT ![u].new_alerts = Append(@, Head(up[u].todo)),
                        ![u].src_ips = Append(@, up[u].ip),
                        ![u].todo = Tail(@),
                        ![u].pc = IF Tail(up[u].todo) = <<>> THEN "sab_wl"
                                  ELSE "insert"]
    /\ UNCHANGED <<blocklist_collection, whitelist_collection, ip_blocked>>
    /\ UNCHANGED notUpload

\* lines 440-462: AlertDocument.create stamps utcnow(); insert_one; the alert
\* joins new_alerts with its confidence and its src_ip
InsertAlert(u) ==
    /\ up[u].pc = "insert"
    /\ alerts_collection' = [alerts_collection EXCEPT
                                ![up[u].ip] = Append(@, 0)]
    /\ up' = [up EXCEPT ![u].new_alerts = Append(@, Head(up[u].todo)),
                        ![u].src_ips = Append(@, up[u].ip),
                        ![u].sent = Append(@, 0),
                        ![u].todo = Tail(@),
                        ![u].pc = "sab_wl"]
    /\ UNCHANGED <<blocklist_collection, whitelist_collection, ip_blocked>>
    /\ UNCHANGED notUpload

\* should_auto_block has returned and its locals are gone: the next finding
\* of the record, or the next record
Returned(t) ==
    IF t.todo = <<>> THEN [NextTurn(t) EXCEPT !.attack_count = 0]
    ELSE [t EXCEPT !.pc = "insert", !.attack_count = 0]

\* should_auto_block line 257
SabWhitelisted(u) ==
    /\ up[u].pc = "sab_wl"
    /\ up' = [up EXCEPT ![u] =
                 IF up[u].ip = "" \/ check_ip_whitelisted(up[u].ip)
                 THEN Returned(@) ELSE [@ EXCEPT !.pc = "sab_count"]]
    /\ UNCHANGED <<alerts_collection, blocklist_collection, whitelist_collection,
                   ip_blocked>>
    /\ UNCHANGED notUpload

\* should_auto_block lines 261-267
SabCount(u) ==
    /\ up[u].pc = "sab_count"
    /\ LET n == count_documents(up[u].ip) IN
       up' = [up EXCEPT ![u] =
                 IF meets_threshold(n)
                 THEN [@ EXCEPT !.attack_count = n, !.pc = "sab_find"]
                 ELSE Returned(@)]
    /\ UNCHANGED <<alerts_collection, blocklist_collection, whitelist_collection,
                   ip_blocked>>
    /\ UNCHANGED notUpload

\* should_auto_block lines 269-270, 301
SabFind(u) ==
    /\ up[u].pc = "sab_find"
    /\ LET e == find_one(blocklist_collection, up[u].ip) IN
       up' = [up EXCEPT ![u] =
                 IF e = 0 THEN [@ EXCEPT !.pc = "sab_insert"]
                 ELSE IF ~blocklist_collection[e].is_active
                 THEN [@ EXCEPT !.pc = "sab_update"]
                 ELSE Returned(@)]
    /\ UNCHANGED <<alerts_collection, blocklist_collection, whitelist_collection,
                   ip_blocked>>
    /\ UNCHANGED notUpload

\* should_auto_block lines 272-300: insert_one, then the ip_blocked event,
\* the emit coming to o.  A DuplicateKeyError and an exception of emit are
\* caught at line 297.
SabInsertEmit(u, o) ==
    /\ up[u].pc = "sab_insert"
    /\ LET r == insert_one(blocklist_collection,
                           BlocklistDocument(up[u].ip, TRUE, up[u].attack_count))
       IN  /\ blocklist_collection' = r.coll
           /\ ip_blocked' = IF r.ok /\ o = "sent"
                            THEN [ip_blocked EXCEPT ![up[u].ip] = @ + 1]
                            ELSE ip_blocked
    /\ up' = [up EXCEPT ![u] = Returned(@)]
    /\ UNCHANGED <<alerts_collection, whitelist_collection>>
    /\ UNCHANGED notUpload

SabInsert(u, faults) == \E o \in EmitOutcomes(faults) : SabInsertEmit(u, o)

\* What should_auto_block returns from lines 272-309: True at line 296,
\* reached when neither insert_one nor emit left the try block; False at
\* line 309 after the except branch of line 297.
returns_after_insert(inserted, o) == inserted /\ o # "raised"

\* update_one({"ip": ip}, {"$set": fields}): the first document with that ip
update_one(coll, ip, fields) ==
    LET e == find_one(coll, ip) IN
    IF e = 0 THEN coll
    ELSE [coll EXCEPT ![e] = [k \in DOMAIN coll[e] |->
                                 IF k \in DOMAIN fields THEN fields[k] ELSE coll[e][k]]]

\* should_auto_block lines 301-307: the inactive entry is reactivated
SabUpdate(u) ==
    /\ up[u].pc = "sab_update"
    /\ blocklist_collection' =
          update_one(blocklist_collection, up[u].ip,
                     [is_active |-> TRUE, attack_count |-> up[u].attack_count])
    /\ up' = [up EXCEPT ![u] = Returned(@)]
    /\ UNCHANGED <<alerts_collection, whitelist_collection, ip_blocked>>
    /\ UNCHANGED notUpload

\* line 430: the records are exhausted; line 468 starts the notifications
EndRecords(u) ==
    /\ up[u].pc = "loop"
    /\ up' = [up EXCEPT ![u].pc = "emit", ![u].ei = 1]
    /\ UNCHANGED <<alerts_collection, blocklist_collection, whitelist_collection,
                   ip_blocked>>
    /\ UNCHANGED notUpload

\* The notification test with > in place of >=.
qualifies_gt(conf) == conf > NOTIFY_CONFIDENCE

\* line 469
qualifies(conf) == conf >= NOTIFY_CONFIDENCE

\* lines 468-493: one turn of the notification loop, or the answer after the
\* last one.  An exception that leaves the loop is answered with status 500.
Emit(u, faults) ==
    /\ up[u].pc = "emit"
    /\ LET i == up[u].ei IN
       IF i > Len(up[u].new_alerts)
       THEN up' = [up EXCEPT ![u].pc = "done", ![u].res = "success"]
       ELSE IF qualifies(up[u].new_alerts[i])
       THEN \E o \in EmitOutcomes(faults) :
               up' = [up EXCEPT
                        ![u].sent[i] = IF o = "sent" THEN @ + 1 ELSE @,
                        ![u].ei = IF o = "raised" THEN @ ELSE @ + 1,
                        ![u].pc = IF o = "raised" THEN "done" ELSE @,
                        ![u].res = IF o = "raised" THEN "error500" ELSE @]
       ELSE up' = [up EXCEPT ![u].ei = @ + 1]
    /\ UNCHANGED <<alerts_collection, blocklist_collection, whitelist_collection,
                   ip_blocked>>
    /\ UNCHANGED notUpload

\* The response is out; the thread takes the next request.
UploadReturn(u) ==
    /\ up[u].pc = "done"
    /\ up' = [up EXCEPT ![u] = IdleUploader]
    /\ UNCHANGED <<alerts_collection, blocklist_collection, whitelist_collection,
                   ip_blocked>>
    /\ UNCHANGED notUpload

(***************************************************************************)
(* The blocklist and whitelist routes                                      *)
(***************************************************************************)
\* POST /api/blocklist, line 836: find_one
BeginBlock(u, serial) ==
    /\ MayBegin(u, serial)
    /\ \E ip \in RealIps :
          up' = [up EXCEPT ![u] =
                   [IdleUploader EXCEPT !.op = "block", !.ip = ip,
                       !.found = (find_one(blocklist_collection, ip) # 0),
                       !.pc = "block_write"]]
    /\ UNCHANGED <<alerts_collection, blocklist_collection, whitelist_collection,
                   ip_blocked>>
    /\ UNCHANGED notUpload

\* POST /api/blocklist writing a fresh document over the entry it found.
BlockWrite_recreate(u) ==
    /\ up[u].pc = "block_write"
    /\ IF up[u].found
       THEN /\ blocklist_collection' =
                  update_one(blocklist_collection, up[u].ip,
                             BlocklistDocument(up[u].ip, FALSE, 0))
            /\ up' = [up EXCEPT ![u].pc = "done", ![u].res = "success"]
       ELSE LET r == insert_one(blocklist_collection,
                                BlocklistDocument(up[u].ip, FALSE, 0))
            IN  /\ blocklist_collection' = r.coll
                /\ up' = [up EXCEPT ![u].pc = "done",
                                    ![u].res = IF r.ok THEN "success"
                                               ELSE "error500"]
    /\ UNCHANGED <<alerts_collection, whitelist_collection, ip_blocked>>
    /\ UNCHANGED notUpload

\* POST /api/blocklist, lines 837-850: update_one or insert_one; a
\* DuplicateKeyError is not caught and the request fails.
BlockWrite(u) ==
    /\ up[u].pc = "block_write"
    /\ IF up[u].found
       THEN /\ blocklist_collection' =
                  update_one(blocklist_collection, up[u].ip,
                             [is_active |-> TRUE, reason |-> "Manually blocked"])
            /\ up' = [up EXCEPT ![u].pc = "done", ![u].res = "success"]
       ELSE LET r == insert_one(blocklist_collection,
                                BlocklistDocument(up[u].ip, FALSE, 0))
            IN  /\ blocklist_collection' = r.coll
                /\ up' = [up EXCEPT ![u].pc = "done",
                                    ![u].res = IF r.ok THEN "success"
                                               ELSE "error500"]
    /\ UNCHANGED <<alerts_collection, whitelist_collection, ip_blocked>>
    /\ UNCHANGED notUpload

\* Requests that write once are served in one step; under `serial` they wait
\* for the request in progress.
NoRequest(serial) == serial => \A u \in Uploaders : up[u].pc = "idle"

\* DELETE /api/blocklist/<block_id> as a delete_one of the document
unblock_ip_delete(i, serial) ==
    /\ NoRequest(serial)
    /\ i \in DOMAIN blocklist_collection
    /\ blocklist_collection' =
          [j \in 1..(Len(blocklist_collection) - 1) |->
              IF j < i THEN blocklist_collection[j] ELSE blocklist_collection[j + 1]]
    /\ UNCHANGED <<alerts_collection, whitelist_collection, ip_blocked, up>>
    /\ UNCHANGED notUpload

\* DELETE /api/blocklist/<block_id>
unblock_ip(i, serial) ==
    /\ NoRequest(serial)
    /\ i \in DOMAIN blocklist_collection
    /\ blocklist_collection' = [blocklist_collection EXCEPT ![i].is_active = FALSE]
    /\ UNCHANGED <<alerts_collection, whitelist_collection, ip_blocked, up>>
    /\ UNCHANGED notUpload

\* POST /api/whitelist, lines 884-902
whitelist_api(ip, serial) ==
    /\ NoRequest(serial)
    /\ whitelist_collection' =
          IF find_one(whitelist_collection, ip) # 0
          THEN update_one(whitelist_collection, ip,
                          [is_active |-> TRUE, reason |-> "Manually whitelisted"])
          ELSE insert_one(whitelist_collection, WhitelistDocument(ip)).coll
    /\ UNCHANGED <<alerts_collection, blocklist_collection, ip_blocked, up>>
    /\ UNCHANGED notUpload

\* DELETE /api/whitelist/<whitelist_id>
remove_whitelist(i, serial) ==
    /\ NoRequest(serial)
    /\ i \in DOMAIN whitelist_collection
    /\ whitelist_collection' = [whitelist_collection EXCEPT ![i].is_active = FALSE]
    /\ UNCHANGED <<alerts_collection, blocklist_collection, ip_blocked, up>>
    /\ UNCHANGED notUpload

\* An hour passes: every alert is an hour older.  The timestamp of an alert
\* and the cutoff of the count that follows its insert are taken within the
\* same hour.
Older(age) == IF age > AUTO_BLOCK_WINDOW_HOURS THEN age ELSE age + 1

Tick ==
    /\ \A u \in Uploaders : up[u].pc \notin {"sab_wl", "sab_count"}
    /\ alerts_collection' = [ip \in SrcIps |->
                                [i \in DOMAIN alerts_collection[ip] |->
                                    Older(alerts_collection[ip][i])]]
    /\ UNCHANGED <<blocklist_collection, whitelist_collection, ip_blocked, up>>
    /\ UNCHANGED notUpload

\* A day passes: every alert has left the auto-block window.
NewDay ==
    /\ today < MaxDay
    /\ \A u \in Uploaders : up[u].pc \notin {"sab_wl", "sab_count"}
    /\ today' = today + 1
    /\ alerts_collection' = [ip \in SrcIps |->
                                [i \in DOMAIN alerts_collection[ip] |->
                                    AUTO_BLOCK_WINDOW_HOURS + 1]]
    /\ UNCHANGED <<blocklist_collection, whitelist_collection, ip_blocked, up>>
    /\ UNCHANGED <<pcapVars, geminiVars, geoVars, fnVars, fileVars, laterVars>>

(***************************************************************************)
(* POST /api/upload, lines 369-423: the file is saved, then checked        *)
(***************************************************************************)
MaxParts == 2         \* dot-separated parts of a file name

FileWords == {"capture", "exe", "txt", "TXT"}
\* f.filename, split at its dots
Filenames == UNION {[1..n -> FileWords] : n \in 1..MaxParts}
\* What parse_pcap / parse_access_log come to: a list with records, an
\* empty list, an exception.
Parsed == {"records", "empty", "raises"}

valid_extensions == {"pcap", "pcapng", "log", "txt"}

\* str.lower()
lower(word) == IF word = "TXT" THEN "txt" ELSE word

\* ext = f.filename.lower().split('.')[-1]
ext(filename) == lower(filename[Len(filename)])

NoUpload == [filename |-> <<>>, parsed |-> "none", saved |-> FALSE, res |-> "none"]

FileInit == received = NoUpload /\ today = 0

\* the response of upload() up to line 423, "accepted" when the records
\* are gone through
upload_response(filename, parsed) ==
    IF ext(filename) \notin valid_extensions THEN "400 Invalid file type"
    ELSE IF parsed = "raises" THEN "500 Error parsing file"
    ELSE IF parsed = "empty" THEN "400 No records found in file"
    ELSE "accepted"

\* upload() from f.save to the first record: the file is saved, removed
\* again when its extension is not a valid one, parsed otherwise; with
\* records, the loop takes the first of them
upload_file(u, serial) ==
    /\ MayBegin(u, serial)
    /\ \E filename \in Filenames, parsed \in Parsed :
          LET res == upload_response(filename, parsed)
          IN  /\ received' = [filename |-> filename,
                              parsed |-> IF res = "400 Invalid file type" THEN "none"
                                         ELSE parsed,
                              saved |-> res # "400 Invalid file type",
                              res |-> res]
              /\ IF res = "accepted"
                 THEN \E ip \in SrcIps :
                         up' = [up EXCEPT ![u] =
                                  [IdleUploader EXCEPT !.op = "upload", !.ip = ip,
                                                       !.pc = "check_wl"]]
                 ELSE UNCHANGED up
    /\ UNCHANGED <<alerts_collection, blocklist_collection, whitelist_collection,
                   ip_blocked>>
    /\ UNCHANGED notFile

\* upload() from the first record on
RecordSteps(u, faults, confs) ==
    \/ NextRecord(u) \/ CheckWhitelisted(u)
    \/ CheckBlocked(u, confs) \/ InsertAlert(u)
    \/ SabWhitelisted(u) \/ SabCount(u) \/ SabFind(u) \/ SabInsert(u, faults)
    \/ SabUpdate(u) \/ EndRecords(u) \/ Emit(u, faults) \/ UploadReturn(u)

UploadSteps(u, serial, faults, confs) ==
    \/ BeginUpload(u, serial)
    \/ RecordSteps(u, faults, confs)
    \/ BeginBlock(u, serial) \/ BlockWrite(u)

AdminSteps(serial) ==
    \/ \E i \in 1..Cardinality(RealIps) :
          unblock_ip(i, serial) \/ remove_whitelist(i, serial)
    \/ \E ip \in RealIps : whitelist_api(ip, serial)
    \/ Tick

\* Concurrent requests; every broadcast goes out and every finding is one
\* that is pushed.
UploadNext ==
    \/ \E u \in Uploaders : UploadSteps(u, FALSE, FALSE, HighConfidences)
    \/ AdminSteps(FALSE)

\* One request at a time; a broadcast may raise.
SerialNext ==
    \/ \E u \in Uploaders : UploadSteps(u, TRUE, TRUE, Confidences)
    \/ AdminSteps(TRUE)

\* One request at a time; every broadcast goes out.
NotifyNext ==
    \/ \E u \in Uploaders : UploadSteps(u, TRUE, FALSE, Confidences)
    \/ AdminSteps(TRUE)

\* One request at a time over the days; every broadcast goes out and every
\* finding is one that is pushed.
DaysNext ==
    \/ \E u \in Uploaders : UploadSteps(u, TRUE, FALSE, HighConfidences)
    \/ AdminSteps(TRUE)
    \/ NewDay

\* Concurrent uploads of records of IPs that nobody whitelists or blocks by
\* hand; a block may be lifted.
RaceNext ==
    \/ \E u \in Uploaders :
          BeginUpload(u, FALSE) \/ RecordSteps(u, FALSE, HighConfidences)
    \/ \E i \in 1..Cardinality(RealIps) : unblock_ip(i, FALSE)
    \/ Tick

\* Every writer of the blocklist, requests interleaved: the uploads with
\* their auto-block evaluations, the manual POST /api/blocklist and the
\* unblock; nobody is whitelisted.
BlocklistNext ==
    \/ \E u \in Uploaders :
          \/ BeginUpload(u, FALSE) \/ RecordSteps(u, FALSE, HighConfidences)
          \/ BeginBlock(u, FALSE) \/ BlockWrite(u)
    \/ \E i \in 1..Cardinality(RealIps) : unblock_ip(i, FALSE)
    \/ Tick

\* Uploads one at a time, a record more than in the other specifications:
\* enough alerts for an IP to be blocked in the middle of a record's
\* findings.
BurstNext ==
    \/ \E u \in Uploaders :
          \/ BeginUpload(u, TRUE) \/ NextRecord(u) \/ CheckWhitelisted(u)
          \/ CheckBlockedWithin(u, HighConfidences, MaxBurst) \/ InsertAlert(u)
          \/ SabWhitelisted(u) \/ SabCount(u) \/ SabFind(u) \/ SabInsert(u, FALSE)
          \/ SabUpdate(u) \/ EndRecords(u) \/ Emit(u, FALSE) \/ UploadReturn(u)
    \/ \E i \in 1..Cardinality(RealIps) : unblock_ip(i, TRUE)

\* Concurrent uploads, each served within the hour, findings of either
\* confidence.
OrderNext ==
    \/ \E u \in Uploaders :
          BeginUpload(u, FALSE) \/ RecordSteps(u, FALSE, Confidences)
    \/ \E i \in 1..Cardinality(RealIps) : unblock_ip(i, FALSE)

\* Uploads from the file on, one request at a time; every broadcast goes
\* out and every finding is one that is pushed.
FileNext ==
    \/ \E u \in Uploaders :
          \/ upload_file(u, TRUE) \/ RecordSteps(u, FALSE, HighConfidences)
          \/ BeginBlock(u, TRUE) \/ BlockWrite(u)
    \/ AdminSteps(TRUE)

(***************************************************************************)
(* The AI threat-intelligence service (services/gemini_service.py).  The   *)
(* model runs it configured with GEMINI_RATE_LIMIT_PER_MINUTE=2,           *)
(* GEMINI_CACHE_TTL=40, GEMINI_MAX_RETRIES=2 and GEMINI_RETRY_DELAY=20;    *)
(* time is counted in seconds and passes in units of the retry delay.      *)
(***************************************************************************)
MaxClock == 120       \* no request arrives after this time

RATE_LIMIT_PER_MINUTE == 2
WINDOW_SECONDS == 60
CACHE_TTL == 40
MAX_RETRIES == 2
RETRY_DELAY == 20

\* The request threads that may call the service; the specifications of
\* one call at a time run the first.
GeminiCallers == {"g1", "g2"}
OneCaller == {"g1"}
CacheKeys == {"alert_a1", "ip_10.0.0.1"}
\* What the model answers: a JSON object with a threat level, a JSON object
\* whose threat_level is null, text with no JSON object in it.
Responses == {"json_high", "json_null", "prose"}

NoResult == [kind |-> "none", analysis |-> "none", error |-> "none"]
NoCall == [kind |-> "none", analysis |-> "none", at |-> 0]

IdleCaller == [pc |-> "idle", op |-> "none", cache_key |-> "none", at |-> 0,
               retry_count |-> 0, posts |-> 0, sleeps |-> <<>>,
               call |-> "none", text |-> "none", res |-> NoResult]

GeminiIdle ==
    /\ request_count = 0
    /\ request_window_start = 0
    /\ clock = 0
    /\ admitted = <<>>
    /\ threat_intel_collection = <<>>
    /\ previous = [k \in CacheKeys |-> NoCall]
    /\ gem = [g \in GeminiCallers |-> IdleCaller]

\* GeminiService.__init__, the key configured or not
GeminiInit == api_key \in BOOLEAN /\ GeminiIdle

cache_key(op) == IF op = "analyze_threat" THEN "alert_a1" ELSE "ip_10.0.0.1"

\* created_at >= utcnow() - CACHE_TTL, with `>` for `>=`
within_ttl_gt(created_at, now) == created_at > now - CACHE_TTL

\* {"created_at": {"$gte": cutoff}}, cutoff = utcnow() - CACHE_TTL
within_ttl(created_at, now) == created_at >= now - CACHE_TTL

\* _get_cached_analysis: find_one, the first match in insertion order; 0 for None
get_cached_analysis(key, now) ==
    LET hits == {i \in 1..Len(threat_intel_collection) :
                    /\ threat_intel_collection[i].cache_key = key
                    /\ within_ttl(threat_intel_collection[i].created_at, now)}
    IN  IF hits = {} THEN 0 ELSE CHOOSE i \in hits : \A j \in hits : i <= j

\* the route's find_one({"alert_id": alert_id}), no sort and no bound on
\* created_at: the first document of the alert in insertion order, 0 for
\* None; the documents of alert a1 are those of the cache key alert_a1
find_analysis(key) ==
    LET hits == {i \in 1..Len(threat_intel_collection) :
                    threat_intel_collection[i].cache_key = key}
    IN  IF hits = {} THEN 0 ELSE CHOOSE i \in hits : \A j \in hits : i <= j

\* POST /api/gemini/analyze after the service call has returned `analysis`:
\* the body of the 200 answer; a document is named by its place in the
\* collection (its analysis_id is a uuid4 of its own), 0 for None
analyze_response(key, analysis) ==
    LET i == find_analysis(key)
    IN  IF i # 0
        THEN [analysis_id |-> i,
              threat_level |-> threat_intel_collection[i].threat_level,
              analysis |-> threat_intel_collection[i].gemini_response]
        ELSE [analysis_id |-> 0,
              threat_level |-> IF analysis.threat_level = "absent" THEN "medium"
                               ELSE analysis.threat_level,
              analysis |-> analysis]

\* _check_rate_limit called at time now: the counter, the window start and
\* the time when it returns; slept = it went through time.sleep
check_rate_limit(count, start, now) ==
    LET expired == now - start >= WINDOW_SECONDS
        c1 == IF expired THEN 0 ELSE count
        s1 == IF expired THEN now ELSE start
        full == c1 >= RATE_LIMIT_PER_MINUTE
        sleep_time == WINDOW_SECONDS - (now - s1)
        slept == full /\ sleep_time > 0
        now2 == IF slept THEN now + sleep_time ELSE now
    IN  [count |-> (IF full THEN 0 ELSE c1) + 1,
         start |-> IF full THEN now2 ELSE s1,
         now   |-> now2,
         slept |-> slept]

\* the entries of the log that are less than a window old at time now
RECURSIVE Latest(_, _)
Latest(log, now) ==
    IF log = <<>> THEN <<>>
    ELSE IF now - Head(log) >= WINDOW_SECONDS THEN Latest(Tail(log), now)
    ELSE log

\* the calls that returned at most CACHE_TTL before time now
Remembered(prev, now) ==
    [k \in CacheKeys |->
        IF prev[k].kind # "none" /\ now - prev[k].at > CACHE_TTL THEN NoCall
        ELSE prev[k]]

\* _call_gemini_api reaches _check_rate_limit whatever the key is
enters_limiter_always(key) == TRUE

\* _call_gemini_api: `if not self.api_key: raise` comes before
\* self._check_rate_limit()
enters_limiter(key) == key

\* `if retry_count < MAX_RETRIES`, with `<=` for `<`
may_retry_le(retry_count) == retry_count <= MAX_RETRIES

\* `if retry_count < MAX_RETRIES`
may_retry(retry_count) == retry_count < MAX_RETRIES

\* time.sleep(RETRY_DELAY * (2 ** retry_count))
backoff(retry_count) == RETRY_DELAY * (2 ^ retry_count)

\* _parse_json_response: the object between the first `{` and the last `}`,
\* or the whole text under raw_response
parse_json_response(text) ==
    CASE text = "json_high" -> [threat_level |-> "HIGH", raw_response |-> "absent"]
      [] text = "json_null" -> [threat_level |-> "null", raw_response |-> "absent"]
      [] OTHER              -> [threat_level |-> "absent", raw_response |-> text]

\* analysis.get('threat_level', 'medium').lower(): "raises" for a value that
\* is no string
threat_level(analysis) ==
    CASE analysis.threat_level = "absent" -> "medium"
      [] analysis.threat_level = "null"   -> "raises"
      [] analysis.threat_level = "HIGH"   -> "high"
      [] OTHER                            -> analysis.threat_level

\* GeminiThreatIntelDocument.create
GeminiThreatIntelDocument(key, level, analysis, now) ==
    [cache_key |-> key, threat_level |-> level, gemini_response |-> analysis,
     created_at |-> now]

\* the except branch of analyze_threat / enrich_ip_reputation
Fallback(error) ==
    [kind |-> "fallback",
     analysis |-> [threat_level |-> "medium", raw_response |-> "absent"],
     error |-> error]

Finished(t, call, res) == [t EXCEPT !.pc = "done", !.call = call, !.res = res]

\* analyze_threat / enrich_ip_reputation up to the try: the cache lookup,
\* which is outside the try, so that what it raises reaches the caller
BeginAnalysisBy(g, op, faults, latest) ==
    /\ gem[g].pc = "idle"
    /\ clock <= latest
    /\ LET key == cache_key(op)
           i == get_cached_analysis(key, clock)
           t == [gem[g] EXCEPT !.op = op, !.cache_key = key, !.at = clock]
       IN  \/ /\ i # 0
              /\ gem' = [gem EXCEPT ![g] = Finished(t, "none",
                            [kind |-> "cached",
                             analysis |-> threat_intel_collection[i].gemini_response,
                             error |-> "none"])]
           \/ /\ i = 0
              /\ gem' = [gem EXCEPT ![g] = [t EXCEPT !.pc = "call", !.call = "running"]]
           \/ /\ faults
              /\ gem' = [gem EXCEPT ![g] = Finished(t, "none",
                            [kind |-> "raised", analysis |-> "none",
                             error |-> "find_one"])]
    /\ UNCHANGED <<api_key, request_count, request_window_start, clock, admitted,
                   threat_intel_collection, previous>>
    /\ UNCHANGED notGemini

BeginAnalysis(g, op, faults) == BeginAnalysisBy(g, op, faults, MaxClock)

\* _call_gemini_api up to requests.post: the key check, then the limiter
EnterCall(g) ==
    /\ gem[g].pc = "call"
    /\ LET r == check_rate_limit(request_count, request_window_start, clock)
       IN  /\ IF enters_limiter(api_key)
              THEN /\ request_count' = r.count
                   /\ request_window_start' = r.start
                   /\ clock' = r.now
                   /\ admitted' = Latest(IF r.slept THEN admitted
                                          ELSE Append(admitted, clock), r.now)
                   /\ previous' = Remembered(previous, r.now)
              ELSE UNCHANGED <<request_count, request_window_start, clock, admitted,
                               previous>>
           /\ gem' = [gem EXCEPT ![g] =
                        IF api_key THEN [@ EXCEPT !.pc = "post"]
                        ELSE Finished(@, "not_configured",
                                      Fallback("Gemini API key not configured"))]
    /\ UNCHANGED <<api_key, threat_intel_collection>>
    /\ UNCHANGED notGemini

\* requests.post and what follows it in _call_gemini_api
Post(g) ==
    /\ gem[g].pc = "post"
    /\ \/ \E text \in Responses :
             /\ gem' = [gem EXCEPT ![g] = [@ EXCEPT !.pc = "parse",
                          !.posts = @ + 1, !.call = "returned", !.text = text]]
             /\ UNCHANGED <<clock, admitted, previous>>
       \/ /\ gem' = [gem EXCEPT ![g] = Finished([gem[g] EXCEPT !.posts = @ + 1],
                          "bad_format", Fallback("Unexpected API response format"))]
          /\ UNCHANGED <<clock, admitted, previous>>
       \/ IF may_retry(gem[g].retry_count)
          THEN /\ clock' = clock + backoff(gem[g].retry_count)
               /\ admitted' = Latest(admitted, clock')
               /\ previous' = Remembered(previous, clock')
               /\ gem' = [gem EXCEPT ![g] = [@ EXCEPT !.pc = "call",
                            !.posts = @ + 1,
                            !.sleeps = Append(@, backoff(gem[g].retry_count)),
                            !.retry_count = @ + 1]]
          ELSE /\ gem' = [gem EXCEPT ![g] = Finished([gem[g] EXCEPT !.posts = @ + 1],
                            "call_failed", Fallback("Gemini API call failed"))]
               /\ UNCHANGED <<clock, admitted, previous>>
    /\ UNCHANGED <<api_key, request_count, request_window_start,
                   threat_intel_collection>>
    /\ UNCHANGED notGemini

\* the rest of the try: parse, create the document, insert_one, return
Persist(g, faults) ==
    /\ gem[g].pc = "parse"
    /\ LET analysis == parse_json_response(gem[g].text)
           level == IF gem[g].op = "analyze_threat" THEN threat_level(analysis)
                    ELSE "medium"
       IN  \/ /\ level = "raises"
              /\ gem' = [gem EXCEPT ![g] = Finished(@, @.call, Fallback("lower"))]
              /\ UNCHANGED threat_intel_collection
           \/ /\ level # "raises"
              /\ threat_intel_collection' = Append(threat_intel_collection,
                    GeminiThreatIntelDocument(gem[g].cache_key, level, analysis, clock))
              /\ gem' = [gem EXCEPT ![g] = Finished(@, @.call,
                            [kind |-> "fresh", analysis |-> analysis,
                             error |-> "none"])]
           \/ /\ faults
              /\ level # "raises"
              /\ gem' = [gem EXCEPT ![g] = Finished(@, @.call, Fallback("insert_one"))]
              /\ UNCHANGED threat_intel_collection
    /\ UNCHANGED <<api_key, request_count, request_window_start, clock, admitted,
                   previous>>
    /\ UNCHANGED notGemini

\* the caller has its answer
GeminiReturn(g) ==
    /\ gem[g].pc = "done"
    /\ previous' = [previous EXCEPT ![gem[g].cache_key] =
          [kind |-> gem[g].res.kind, analysis |-> gem[g].res.analysis,
           at |-> clock]]
    /\ gem' = [gem EXCEPT ![g] = IdleCaller]
    /\ UNCHANGED <<api_key, request_count, request_window_start, clock, admitted,
                   threat_intel_collection>>
    /\ UNCHANGED notGemini

\* time passes while no call is under way
Elapse ==
    /\ clock < MaxClock
    /\ \A g \in GeminiCallers : gem[g].pc \in {"idle"}
    /\ clock' = clock + RETRY_DELAY
    /\ admitted' = Latest(admitted, clock')
    /\ previous' = Remembered(previous, clock')
    /\ UNCHANGED <<api_key, request_count, request_window_start,
                   threat_intel_collection, gem>>
    /\ UNCHANGED notGemini

CallSteps(g, faults) ==
    \/ EnterCall(g) \/ Post(g) \/ Persist(g, faults) \/ GeminiReturn(g)

GeminiStepsOf(callers, ops, faults) ==
    \/ \E g \in callers :
          \/ \E op \in ops : BeginAnalysis(g, op, faults)
          \/ CallSteps(g, faults)
    \/ Elapse

GeminiSteps(ops, faults) == GeminiStepsOf(OneCaller, ops, faults)

\* Threat analyses requested by two threads at a time, within one cache
\* lifetime of the start; time passes in their sleeps only.
AnalystsNext ==
    \E g \in GeminiCallers :
       \/ BeginAnalysisBy(g, "analyze_threat", FALSE, CACHE_TTL)
       \/ CallSteps(g, FALSE)

\* Threat analyses; the store answers every request.
GeminiNext == GeminiSteps({"analyze_threat"}, FALSE)

\* Reputation lookups; find_one and insert_one may raise.
GeminiFaultNext == GeminiSteps({"enrich_ip_reputation"}, TRUE)

(***************************************************************************)
(* Geolocation lookups with their cache (ip_services.py).                  *)
(***************************************************************************)
MaxDays == 8          \* the age of a cache row is not counted further

GEO_CACHE_DAYS == 7

GeoData == {"Paris", "Oslo"}
\* What requests.get comes to: status 200 with a body, status 429, another
\* status, requests.exceptions.Timeout, any other exception.
GeoOutcomes == {"200", "429", "500", "Timeout", "Exception"}

NoRow == [present |-> FALSE, data |-> "None", days |-> 0]
NoGeoCall == [valid |-> FALSE, cached |-> NoRow, requested |-> FALSE,
              outcome |-> "none", result |-> "None"]

GeoInit ==
    /\ ip_geolocation = NoRow
    /\ geo = NoGeoCall

\* cache_age.days < GEO_CACHE_DAYS
cache_valid(days) == days < GEO_CACHE_DAYS

\* `if cached: return {...}` in a branch that falls back on the cache
cached_or_none(cached) == IF cached.present THEN cached.data ELSE "None"

\* get_ip_geolocation after the cache lookup, the API answering `outcome`
\* (with body `data` when the status is 200): the value returned
geo_result(cached, outcome, data) ==
    IF cached.present /\ cache_valid(cached.days) THEN cached.data
    ELSE CASE outcome = "200" -> data
           [] outcome \in {"429", "Timeout", "Exception"} -> cached_or_none(cached)
           [] OTHER -> "None"

\* get_ip_geolocation(ip): valid = is_valid_ip(ip)
get_ip_geolocation(valid, outcome, data) ==
    LET cached == ip_geolocation
        fresh == cached.present /\ cache_valid(cached.days)
    IN  /\ geo' = IF ~valid THEN [NoGeoCall EXCEPT !.cached = cached]
                  ELSE [valid |-> TRUE, cached |-> cached, requested |-> ~fresh,
                        outcome |-> IF fresh THEN "none" ELSE outcome,
                        result |-> geo_result(cached, outcome, data)]
        /\ ip_geolocation' =
              IF valid /\ ~fresh /\ outcome = "200"
              THEN [present |-> TRUE, data |-> data, days |-> 0]
              ELSE ip_geolocation
        /\ UNCHANGED notGeo

\* a day passes
GeoDay ==
    /\ ip_geolocation.present
    /\ ip_geolocation.days < MaxDays
    /\ ip_geolocation' = [ip_geolocation EXCEPT !.days = @ + 1]
    /\ UNCHANGED geo
    /\ UNCHANGED notGeo

GeoNext ==
    \/ \E valid \in BOOLEAN, outcome \in GeoOutcomes, data \in GeoData :
          get_ip_geolocation(valid, outcome, data)
    \/ GeoDay

(***************************************************************************)
(* Capture file paths (utils/pcap_utils.py, sanitize_file_path).  A path   *)
(* is a sequence of components, absolute or relative; the storage root is  *)
(* /srv/pcap.                                                              *)
(***************************************************************************)
MaxDepth == 3         \* components of a path handed in

Names == {"..", "srv", "pcap", "etc"}
\* Path(PCAP_STORAGE_PATH).resolve()
PCAP_STORAGE_PATH == <<"srv", "pcap">>

Paths ==
    [absolute : BOOLEAN,
     parts : UNION {[1..n -> Names] : n \in 0..MaxDepth}]

NoPath == [status |-> "none", parts |-> <<>>]

\* the path taken as written, `..` left in it
resolve_lexical(done, parts) == done \o parts

\* Path.resolve() of an absolute path: `..` steps up, and stays at the root
RECURSIVE resolve(_, _)
resolve(done, parts) ==
    IF parts = <<>> THEN done
    ELSE IF Head(parts) = ".."
         THEN resolve(IF done = <<>> THEN <<>> ELSE SubSeq(done, 1, Len(done) - 1),
                      Tail(parts))
         ELSE resolve(Append(done, Head(parts)), Tail(parts))

\* full_path.relative_to(base) succeeds: base is a prefix of full_path
relative_to(full_path, base) ==
    /\ Len(full_path) >= Len(base)
    /\ SubSeq(full_path, 1, Len(base)) = base

\* sanitize_file_path(filepath, base_path): str(full_path), or ValueError
sanitize_file_path(path, base_path) ==
    LET base == resolve(<<>>, base_path)
        full_path == IF path.absolute THEN resolve(<<>>, path.parts)
                     ELSE resolve(<<>>, base \o path.parts)
    IN  IF relative_to(full_path, base) THEN [status |-> "ok", parts |-> full_path]
        ELSE [status |-> "ValueError", parts |-> <<>>]

PathInit ==
    /\ filepath \in Paths
    /\ file_path = NoPath
    /\ written = NoPath

\* start_capture: file_path = sanitize_file_path(filename,
\* PCAP_STORAGE_PATH); the subprocess is started with `-w file_path`
\* unless the call raised
capture_file ==
    /\ file_path = NoPath
    /\ file_path' = sanitize_file_path(filepath, PCAP_STORAGE_PATH)
    /\ written' = IF file_path'.status = "ok" THEN file_path' ELSE NoPath
    /\ UNCHANGED <<filepath, confidence, priority>>
    /\ UNCHANGED notFn

(***************************************************************************)
(* Alert priorities (app.py get_priority, models_mongodb.py                *)
(* AlertDocument.create).                                                  *)
(***************************************************************************)
MaxConfidence == 100  \* confidences run from 0 to MaxConfidence

\* get_priority, with `>` for the first `>=`
get_priority_gt(conf) ==
    IF conf > 90 THEN "critical"
    ELSE IF conf >= 75 THEN "high"
    ELSE IF conf >= 60 THEN "medium"
    ELSE "low"

\* get_priority(confidence)
get_priority(conf) ==
    IF conf >= 90 THEN "critical"
    ELSE IF conf >= 75 THEN "high"
    ELSE IF conf >= 60 THEN "medium"
    ELSE "low"

\* AlertDocument.create(..., confidence, ..., priority=None): the priority
\* field of the document
AlertDocument_priority(conf, given) ==
    IF given = "None"
    THEN IF conf >= 90 THEN "critical"
         ELSE IF conf >= 75 THEN "high"
         ELSE IF conf >= 60 THEN "medium"
         ELSE "low"
    ELSE given

NoPriority == [route |-> "none", document |-> "none", default |-> "none"]

PriorityInit ==
    /\ confidence \in 0..MaxConfidence
    /\ priority = NoPriority

\* the upload route: priority = get_priority(conf), handed to
\* AlertDocument.create; and AlertDocument.create left to its default
Prioritise ==
    /\ priority = NoPriority
    /\ priority' =
          [route |-> get_priority(confidence),
           document |-> AlertDocument_priority(confidence, get_priority(confidence)),
           default |-> AlertDocument_priority(confidence, "None")]
    /\ UNCHANGED <<filepath, file_path, written, confidence>>
    /\ UNCHANGED notFn

\* the functions of the model that are not run by a specification
FnInit ==
    /\ filepath = [absolute |-> FALSE, parts |-> <<>>]
    /\ file_path = NoPath
    /\ written = NoPath
    /\ confidence = 0
    /\ priority = NoPriority

(***************************************************************************)
(* The cleanup sweep (services/pcap_service.py, cleanup_old_captures).     *)
(* The sweep reads three fields of a capture document: status, created_at  *)
(* and file_path.  A capture's life is taken here by its outcomes: the     *)
(* start that inserted the document and launched the subprocess, and the   *)
(* update that made the status terminal.  The file name of a capture is    *)
(* the `filename` of the start request (routes/pcap_routes.py:35), which   *)
(* two requests may give alike.                                            *)
(***************************************************************************)
MaxSweep == 2         \* captures of the sweep
MaxSweepDay == 2      \* days the sweep is followed over

\* cleanup_old_captures(days_threshold=7), run with days_threshold=1.
days_threshold == 1

SweepIds == 1..MaxSweep
CaptureFiles == {"evidence.pcap", "trace.pcap"}

\* No document under this capture_id: never inserted, or deleted.
NoDocument == [status |-> "absent", file_path |-> "", created_at |-> 0]

SweepInit ==
    /\ captures_collection = [c \in SweepIds |-> NoDocument]
    /\ disk = {}
    /\ cleanup = [pc |-> "idle", old_captures |-> {}]

PcapCaptureDocument(filename) ==
    [status |-> "running", file_path |-> filename, created_at |-> utcnow]

\* capture_id is a uuid4: an id is used once, the ids taken in order.
FreshId(c) ==
    /\ captures_collection[c] = NoDocument
    /\ \A d \in SweepIds : d < c => captures_collection[d] # NoDocument

\* A deleted document leaves its id used.
Deleted == [status |-> "deleted", file_path |-> "", created_at |-> 0]

exists(c) == captures_collection[c].status \in Status

\* start_capture that succeeds: the document inserted with status 'running',
\* the subprocess writing to the file (tcpdump -w creates it).
CaptureStarted(c, filename) ==
    /\ FreshId(c)
    /\ captures_collection' =
          [captures_collection EXCEPT ![c] = PcapCaptureDocument(filename)]
    /\ disk' = disk \cup {filename}
    /\ UNCHANGED <<cleanup, today>>
    /\ UNCHANGED notSweep

\* stop_capture, get_capture_status and get_all_captures: the status of a
\* running capture made terminal.
CaptureEnded(c, status) ==
    /\ captures_collection[c].status = "running"
    /\ captures_collection' =
          [captures_collection EXCEPT ![c].status = status]
    /\ UNCHANGED <<disk, cleanup, today>>
    /\ UNCHANGED notSweep

SweepDay ==
    /\ today < MaxSweepDay
    /\ today' = today + 1
    /\ UNCHANGED sweepVars
    /\ UNCHANGED notSweep

cutoff_date == utcnow - days_threshold

\* {"created_at": {"$lt": cutoff_date}, "status": {"$in": [...]}}
is_old(doc) == doc.created_at < cutoff_date /\ doc.status \in Terminal

\* old_captures = list(self.captures_collection.find(...))
cleanup_find ==
    /\ cleanup.pc = "idle"
    /\ cleanup' =
          [pc |-> "sweeping",
           old_captures |->
              {c \in SweepIds : is_old(captures_collection[c])}]
    /\ UNCHANGED <<captures_collection, disk, today>>
    /\ UNCHANGED notSweep

\* One round of `for capture in old_captures:`: os.remove(file_path) if the
\* file exists, then delete_one({"_id": capture["_id"]}).
cleanup_capture(c) ==
    /\ cleanup.pc = "sweeping"
    /\ c \in cleanup.old_captures
    /\ disk' = disk \ {captures_collection[c].file_path}
    /\ captures_collection' = [captures_collection EXCEPT ![c] = Deleted]
    /\ cleanup' = [cleanup EXCEPT !.old_captures = @ \ {c}]
    /\ UNCHANGED today
    /\ UNCHANGED notSweep

cleanup_return ==
    /\ cleanup.pc = "sweeping"
    /\ cleanup.old_captures = {}
    /\ cleanup' = [cleanup EXCEPT !.pc = "idle"]
    /\ UNCHANGED <<captures_collection, disk, today>>
    /\ UNCHANGED notSweep

SweepNext ==
    \/ \E c \in SweepIds, filename \in CaptureFiles : CaptureStarted(c, filename)
    \/ \E c \in SweepIds, status \in Terminal : CaptureEnded(c, status)
    \/ SweepDay
    \/ cleanup_find
    \/ \E c \in SweepIds : cleanup_capture(c)
    \/ cleanup_return


(***************************************************************************)
(* The alert routes of app.py: PATCH and DELETE /api/alerts/<alert_id>,    *)
(* PATCH /api/alerts/bulk.  An alert document is kept with the three       *)
(* fields a client may write, updated_at, and confidence for the fields    *)
(* a client may not write.                                                 *)
(***************************************************************************)
\* Two alerts: the one a request addresses and another.
AlertIds == {"a1", "a2"}

\* What a request body offers for a field, writable or not.
Sent ==
    [status |-> "resolved", priority |-> "high", notes |-> "seen",
     confidence |-> 99]

\* The bodies of the requests: none, one or all of the fields present.
Bodies == {b \in SUBSET DOMAIN Sent : Cardinality(b) \in {0, 1, 4}}

\* No document under this _id: not inserted yet, or deleted.
NoAlert ==
    [status |-> "absent", priority |-> "", notes |-> "", confidence |-> 0,
     updated_at |-> 0]

PatchInit == alert_documents = [id \in AlertIds |-> NoAlert]

\* AlertDocument.create as upload calls it, for a finding of confidence 50
AlertDocument ==
    [status |-> "new", priority |-> "low", notes |-> "", confidence |-> 50,
     updated_at |-> utcnow]

\* upload: insert_one(alert_doc)
alert_insert(id) ==
    /\ alert_documents[id] = NoAlert
    /\ alert_documents' = [alert_documents EXCEPT ![id] = AlertDocument]
    /\ UNCHANGED today
    /\ UNCHANGED notPatch

\* The update document with every field of the body in it.
update_doc_all(data, fields) ==
    [f \in {"updated_at"} \cup data |->
        IF f = "updated_at" THEN utcnow ELSE Sent[f]]

\* update_doc = {"$set": {"updated_at": utcnow()}}, then
\* `for field in [...]: if field in data: update_doc['$set'][field] = data[field]`
update_doc(data, fields) ==
    [f \in {"updated_at"} \cup (fields \cap data) |->
        IF f = "updated_at" THEN utcnow ELSE Sent[f]]

\* $set on one document
set(doc, update) ==
    [f \in DOMAIN doc |-> IF f \in DOMAIN update THEN update[f] ELSE doc[f]]

\* update_many({"_id": {"$in": ids}}, {"$set": update}); update_one is the
\* same with one id.  An id without a document matches nothing.
update_many(coll, ids, update) ==
    [i \in DOMAIN coll |-> IF i \in ids /\ coll[i] # NoAlert
                           THEN set(coll[i], update) ELSE coll[i]]

\* PATCH /api/alerts/<alert_id>: find_one, 404 without a document
alert_detail_patch(id, data) ==
    /\ alert_documents[id] # NoAlert
    /\ alert_documents' =
          update_many(alert_documents, {id},
                      update_doc(data, {"status", "priority", "notes"}))
    /\ UNCHANGED today
    /\ UNCHANGED notPatch

\* DELETE /api/alerts/<alert_id>: delete_one
alert_detail_delete(id) ==
    /\ alert_documents[id] # NoAlert
    /\ alert_documents' = [alert_documents EXCEPT ![id] = NoAlert]
    /\ UNCHANGED today
    /\ UNCHANGED notPatch

\* PATCH /api/alerts/bulk
bulk_update_alerts(alert_ids, updates) ==
    /\ alert_documents' =
          update_many(alert_documents, alert_ids,
                      update_doc(updates, {"status", "priority"}))
    /\ UNCHANGED today
    /\ UNCHANGED notPatch

PatchNext ==
    \/ \E id \in AlertIds : alert_insert(id)
    \/ \E id \in AlertIds, data \in Bodies : alert_detail_patch(id, data)
    \/ \E id \in AlertIds : alert_detail_delete(id)
    \/ \E alert_ids \in SUBSET AlertIds, updates \in Bodies :
          bulk_update_alerts(alert_ids, updates)
    \/ SweepDay


(***************************************************************************)
(* validate_filter (utils/pcap_utils.py).  A filter is a string over the   *)
(* characters the function tells apart and one it does not.  The function  *)
(* refuses more than 1000 characters; the model runs it with a limit of 3. *)
(***************************************************************************)
MaxFilterLen == 4     \* characters of a filter string

MAX_FILTER_CHARS == 3

\* "bq" is the backtick.
FilterChars == {"a", ";", "bq", "$", "(", ">", "<", "&", "|"}
Filters == UNION {[1..n -> FilterChars] : n \in 0..MaxFilterLen}

NotValidated == [is_valid |-> FALSE, error_message |-> "not validated"]

FilterInit == filter_string \in Filters /\ validated = NotValidated

\* `pattern in filter_string`
contains(s, pattern) ==
    \E i \in 1..(Len(s) - Len(pattern) + 1) :
       SubSeq(s, i, i + Len(pattern) - 1) = pattern

\* filter_string.replace(old, ''), old of two characters: the occurrences
\* from the left, not overlapping
RECURSIVE replace(_, _)
replace(s, old) ==
    IF Len(s) < 2 THEN s
    ELSE IF SubSeq(s, 1, 2) = old THEN replace(SubSeq(s, 3, Len(s)), old)
    ELSE <<s[1]>> \o replace(Tail(s), old)

dangerous_patterns ==
    << <<";">>, <<"bq">>, <<"$", "(">>, <<"|">>, <<">">>, <<"<">>, <<"&">> >>

\* The test of a pattern that lets every '&' and '|' pass once the doubled
\* operator is in the filter.
found_lenient(s, pattern) ==
    IF pattern \in {<<"&">>, <<"|">>} /\ contains(s, pattern \o pattern)
    THEN FALSE
    ELSE contains(s, pattern)

\* One turn of `for pattern in dangerous_patterns:`: whether it returns
\* False
found(s, pattern) ==
    IF pattern \in {<<"&">>, <<"|">>} /\ contains(s, pattern \o pattern)
    THEN contains(replace(s, pattern \o pattern), pattern)
    ELSE contains(s, pattern)

validate_filter(s) ==
    IF s = <<>> THEN [is_valid |-> TRUE, error_message |-> "None"]
    ELSE IF Len(s) > MAX_FILTER_CHARS
    THEN [is_valid |-> FALSE, error_message |-> "Filter string too long"]
    ELSE IF \E k \in DOMAIN dangerous_patterns : found(s, dangerous_patterns[k])
    THEN LET k == CHOOSE k \in DOMAIN dangerous_patterns :
                     /\ found(s, dangerous_patterns[k])
                     /\ \A j \in 1..(k - 1) : ~found(s, dangerous_patterns[j])
         IN  [is_valid |-> FALSE,
              error_message |->
                 IF dangerous_patterns[k] \in {<<"&">>, <<"|">>}
                    /\ contains(s, dangerous_patterns[k] \o dangerous_patterns[k])
                 THEN "Invalid character in filter"
                 ELSE "Potentially dangerous pattern in filter"]
    ELSE [is_valid |-> TRUE, error_message |-> "None"]

\* start_capture line 64
validate ==
    /\ validated = NotValidated
    /\ validated' = validate_filter(filter_string)
    /\ UNCHANGED filter_string
    /\ UNCHANGED notFilter

(***************************************************************************)
(* The mutex of the capture service (pcap_service.py line 39) and the      *)
(* threads that take it                                                    *)
(***************************************************************************)
\* Two request threads, the flush-monitor thread, the duration-timer thread
\* and the recount thread of a capture.
RequestThreads == {"w1", "w2"}
LockThreads == RequestThreads \cup {"flush", "timer", "count"}

\* What a thread runs: a request handler or the target of the thread.
Targets(t) ==
    IF t \in RequestThreads THEN {"start", "stop", "status", "status_all", "delete"}
    ELSE IF t = "flush" THEN {"monitor_and_flush"}
    ELSE IF t = "timer" THEN {"_monitor_capture_duration"}
    ELSE {"count_packets_async"}

\* The with-statements on self.lock, by line; 0 for a thread at none.
Withs == {69, 148, 164, 291, 502, 566}

IdleLocker == [op |-> "none", pc |-> "idle", line |-> 0, left |-> 0]

LockInit ==
    /\ lock = "free"
    /\ locker = [t \in LockThreads |-> IdleLocker]

\* The first with-statement a target comes to; 0 when it comes to none
\* before it ends: count_packets_async and count_async take no lock, and
\* the single-capture status and the delete route take none for a document
\* that is not 'running'.
first_with(op) ==
    CASE op = "start" -> {69}
      [] op = "stop" -> {291}
      [] op = "_monitor_capture_duration" -> {291}
      [] op = "status" -> {0, 502}
      [] op = "delete" -> {0, 502}
      [] op = "status_all" -> {566}
      [] op = "monitor_and_flush" -> {164}
      [] OTHER -> {0}

\* The steps of the body of a with-statement: the kill sequence of
\* stop_capture sends up to three signals and waits for each with a
\* timeout before the bookkeeping; the other bodies are one test or one
\* update.
body_steps(line) == IF line = 291 THEN 4 ELSE 1

\* The with-statement that follows the one at `line`, 0 for none, after the
\* body has returned: start_capture enters the entry at 148 after the test
\* at 69; the delete route calls stop_capture for a capture read as running,
\* or not; monitor_and_flush comes round again unless it breaks.
next_with(op, line) ==
    CASE op = "start" /\ line = 69 -> {148}
      [] op = "delete" /\ line = 502 -> {0, 291}
      [] op = "monitor_and_flush" -> {0, 164}
      [] OTHER -> {0}

\* Leaving a body by acquire()/release() calls without try/finally: an
\* exception leaves the lock taken.
with_exit_unguarded(owner, outcome) ==
    IF outcome = "raises" THEN owner ELSE "free"

\* `with self.lock:` leaves the body through __exit__, which releases the
\* lock whether the body returns or raises.
with_exit(owner, outcome) == "free"

\* The thread goes on to the with-statement at `line`, or ends.
GoesTo(t, op, line) ==
    IF line = 0 THEN IdleLocker
    ELSE [op |-> op, pc |-> "wait", line |-> line, left |-> 0]

\* A request arrives, or the thread is started.
Call(t) ==
    /\ locker[t].pc = "idle"
    /\ \E op \in Targets(t) : \E line \in first_with(op) :
          locker' = [locker EXCEPT ![t] = GoesTo(t, op, line)]
    /\ UNCHANGED lock
    /\ UNCHANGED notLock

\* self.lock.__enter__(): blocks until the lock is free
Acquire(t) ==
    /\ locker[t].pc = "wait"
    /\ lock = "free"
    /\ lock' = t
    /\ locker' = [locker EXCEPT ![t].pc = "held",
                                ![t].left = body_steps(locker[t].line)]
    /\ UNCHANGED notLock

\* One step of the body; the last one, or one that raises, leaves the
\* with-statement.  What is raised inside a body leaves the function: the
\* with-statements lie in no try block that goes on to another one, except
\* in the delete route, which swallows what stop_capture raises and ends.
Body(t) ==
    /\ locker[t].pc = "held"
    /\ \E outcome \in {"returns", "raises"} :
          LET l == locker[t] IN
          IF outcome = "returns" /\ l.left > 1
          THEN /\ locker' = [locker EXCEPT ![t].left = @ - 1]
               /\ UNCHANGED lock
          ELSE /\ lock' = with_exit(lock, outcome)
               /\ \E line \in (IF outcome = "raises" THEN {0}
                               ELSE next_with(l.op, l.line)) :
                     locker' = [locker EXCEPT ![t] = GoesTo(t, l.op, line)]
    /\ UNCHANGED notLock

LockSteps(t) == Call(t) \/ Acquire(t) \/ Body(t)

LockNext == \E t \in LockThreads : LockSteps(t)

(***************************************************************************)
(* _check_rate_limit (gemini_service.py lines 44-60) run by request        *)
(* threads of one service instance: the attributes are read and written    *)
(* without a lock, one read or write of self.* a step.                      *)
(***************************************************************************)
LimiterThreads == {"t1", "t2"}

IdleLimiter == [pc |-> "idle", current_time |-> 0, wake |-> 0, loaded |-> 0]

LimiterInit ==
    /\ limiter = [t \in LimiterThreads |-> IdleLimiter]
    /\ since_reset = 0

\* line 46: current_time = time.time()
LimiterCall(t) ==
    /\ limiter[t].pc = "idle"
    /\ limiter' = [limiter EXCEPT ![t].pc = "window", ![t].current_time = clock]
    /\ UNCHANGED <<request_count, request_window_start, clock, since_reset>>
    /\ UNCHANGED notLimiter

\* line 49: current_time - self.request_window_start >= 60
window_expired(now, start) == now - start >= WINDOW_SECONDS

\* line 49
LimiterWindow(t) ==
    /\ limiter[t].pc = "window"
    /\ limiter' = [limiter EXCEPT ![t].pc =
                      IF window_expired(limiter[t].current_time,
                                        request_window_start)
                      THEN "reset_count" ELSE "full"]
    /\ UNCHANGED <<request_count, request_window_start, clock, since_reset>>
    /\ UNCHANGED notLimiter

\* lines 50 and 57: self.request_count = 0
LimiterResetCount(t) ==
    /\ limiter[t].pc \in {"reset_count", "woken_count"}
    /\ request_count' = 0
    /\ limiter' = [limiter EXCEPT ![t].pc =
                      IF @ = "reset_count" THEN "reset_start" ELSE "woken_start"]
    /\ UNCHANGED <<request_window_start, clock, since_reset>>
    /\ UNCHANGED notLimiter

\* lines 51 and 58: self.request_window_start = current_time, or time.time()
\* after the sleep
LimiterResetStart(t) ==
    /\ limiter[t].pc \in {"reset_start", "woken_start"}
    /\ request_window_start' = IF limiter[t].pc = "reset_start"
                               THEN limiter[t].current_time ELSE clock
    /\ since_reset' = 0
    /\ limiter' = [limiter EXCEPT ![t].pc =
                      IF @ = "reset_start" THEN "full" ELSE "load"]
    /\ UNCHANGED <<request_count, clock>>
    /\ UNCHANGED notLimiter

\* line 54: 60 - (current_time - self.request_window_start)
sleep_time(now, start) == WINDOW_SECONDS - (now - start)

\* lines 53-56: the counter test, and time.sleep(sleep_time) begun
LimiterFull(t) ==
    /\ limiter[t].pc = "full"
    /\ LET s == sleep_time(limiter[t].current_time, request_window_start) IN
       limiter' = [limiter EXCEPT
                     ![t].pc = IF request_count >= RATE_LIMIT_PER_MINUTE /\ s > 0
                               THEN "sleep" ELSE "load",
                     ![t].wake = IF request_count >= RATE_LIMIT_PER_MINUTE /\ s > 0
                                 THEN clock + s ELSE 0]
    /\ UNCHANGED <<request_count, request_window_start, clock, since_reset>>
    /\ UNCHANGED notLimiter

\* line 56: time.sleep returns
LimiterWake(t) ==
    /\ limiter[t].pc = "sleep"
    /\ clock >= limiter[t].wake
    /\ limiter' = [limiter EXCEPT ![t].pc = "woken_count", ![t].wake = 0]
    /\ UNCHANGED <<request_count, request_window_start, clock, since_reset>>
    /\ UNCHANGED notLimiter

\* line 60, self.request_count += 1: the attribute is loaded ...
LimiterLoad(t) ==
    /\ limiter[t].pc = "load"
    /\ limiter' = [limiter EXCEPT ![t].pc = "store", ![t].loaded = request_count]
    /\ UNCHANGED <<request_count, request_window_start, clock, since_reset>>
    /\ UNCHANGED notLimiter

\* ... and stored incremented; _check_rate_limit returns
LimiterStore(t) ==
    /\ limiter[t].pc = "store"
    /\ request_count' = limiter[t].loaded + 1
    /\ since_reset' = since_reset + 1
    /\ limiter' = [limiter EXCEPT ![t] = IdleLimiter]
    /\ UNCHANGED <<request_window_start, clock>>
    /\ UNCHANGED notLimiter

\* Time passes, calls under way or not.
Passes ==
    /\ clock < MaxClock
    /\ clock' = clock + RETRY_DELAY
    /\ UNCHANGED <<request_count, request_window_start, limiter, since_reset>>
    /\ UNCHANGED notLimiter

LimiterNext ==
    \/ \E t \in LimiterThreads :
          \/ LimiterCall(t) \/ LimiterWindow(t) \/ LimiterResetCount(t)
          \/ LimiterResetStart(t) \/ LimiterFull(t) \/ LimiterWake(t)
          \/ LimiterLoad(t) \/ LimiterStore(t)
    \/ Passes

(***************************************************************************)
(* GET /api/alerts with a cidr filter and a limit (app.py, alerts_api;     *)
(* ip_services.py, check_ip_in_cidr).                                      *)
(***************************************************************************)

MaxStored == 4            \* the alerts in the collection
MAX_LIMIT == 1000         \* min(request.args.get('limit', ...), 1000)

\* IPv4 addresses by their octets; <<>> is an alert without src_ip.
NoSrcIp == <<>>
AlertIps == {<<10, 0, 0, 1>>, <<11, 0, 0, 1>>, NoSrcIp}
\* The cidr arguments: a network, and the same with host bits set.
Cidrs == {[address |-> <<10, 0, 0, 0>>, prefixlen |-> 8],
          [address |-> <<10, 0, 0, 7>>, prefixlen |-> 8]}
Limits == {1, 2, MAX_LIMIT + 1}

\* The collections: the src_ip of each alert, the latest timestamp first.
Stored == UNION {[1..n -> AlertIps] : n \in 0..MaxStored}

NoListing == [alerts |-> <<>>, pc |-> "idle", limit |-> 0,
              cidr |-> [address |-> <<>>, prefixlen |-> 0], out |-> <<>>]

ListInit == listing = NoListing

\* int(ipaddress.ip_address(ip))
packed(ip) == ((ip[1] * 256 + ip[2]) * 256 + ip[3]) * 256 + ip[4]

RECURSIVE TwoTo(_)
TwoTo(n) == IF n = 0 THEN 1 ELSE 2 * TwoTo(n - 1)

\* check_ip_in_cidr: ip_network(cidr, strict=False) masks the host bits; an
\* address that does not parse raises and the except branch returns False
check_ip_in_cidr(ip, cidr) ==
    IF Len(ip) # 4 \/ Len(cidr.address) # 4 THEN FALSE
    ELSE packed(ip) \div TwoTo(32 - cidr.prefixlen)
            = packed(cidr.address) \div TwoTo(32 - cidr.prefixlen)

\* find(query).sort("timestamp", -1).limit(limit): the places of the first
\* `limit` alerts, the latest first; no filter but cidr is given
find_sorted_limited(alerts, limit) ==
    [i \in 1..(IF limit < Len(alerts) THEN limit ELSE Len(alerts)) |-> i]

\* `if cidr_filter and r.get('src_ip')`: the alert is kept, or skipped by
\* `continue`
kept(src_ip, cidr) == src_ip = NoSrcIp \/ check_ip_in_cidr(src_ip, cidr)

\* the loop of alerts_api over the alerts the query returned
RECURSIVE listed(_, _, _)
listed(alerts, rows, cidr) ==
    IF rows = <<>> THEN <<>>
    ELSE IF kept(alerts[Head(rows)], cidr)
         THEN <<Head(rows)>> \o listed(alerts, Tail(rows), cidr)
         ELSE listed(alerts, Tail(rows), cidr)

\* GET /api/alerts?cidr=...&limit=...
alerts_api(limit, cidr) ==
    /\ listing.pc = "idle"
    /\ LET lim == IF limit < MAX_LIMIT THEN limit ELSE MAX_LIMIT
       IN  listing' = [listing EXCEPT !.pc = "done", !.limit = limit,
                          !.cidr = cidr,
                          !.out = listed(listing.alerts,
                                         find_sorted_limited(listing.alerts, lim),
                                         cidr)]
    /\ UNCHANGED notList

ListNext == \E limit \in Limits, cidr \in Cidrs : alerts_api(limit, cidr)

LastInit == LockInit /\ LimiterInit /\ ListInit

LaterIdle ==
    /\ SweepInit /\ PatchInit /\ filter_string = <<>> /\ validated = NotValidated
    /\ flush_thread = {} /\ LastInit

LaterInit == LaterIdle

(***************************************************************************)
(* Specifications                                                          *)
(***************************************************************************)
\* The components a specification does not run stay as constructed.
Init ==
    /\ PcapInit /\ UploadInit /\ api_key = TRUE /\ GeminiIdle /\ GeoInit
    /\ FnInit /\ FileInit /\ LaterInit

\* The whole capture service, no step of it raising an exception the code
\* does not raise itself.
Next == PcapNext
Spec == Init /\ [][Next]_vars

\* Starting and stopping captures only: the requests that decide how many
\* captures run at once.  Steps of start and stop may raise.
LimitNext ==
    \/ \E w \in Workers :
          \/ BeginStart(w, MaxCaptures, FALSE) \/ StartInsert(w)
          \/ StartTrack(w) \/ StartFinish(w, TRUE) \/ Stop(w, TRUE) \/ Return(w)
    \/ \E c \in CaptureIds : ProcExit(c)

LimitSpec == Init /\ [][LimitNext]_vars

\* The same requests, steps of start raising and stop doing its work.
CeilingNext ==
    \/ \E w \in Workers :
          \/ BeginStart(w, MaxCaptures, FALSE) \/ StartInsert(w)
          \/ StartTrack(w) \/ StartFinish(w, TRUE) \/ Stop(w, FALSE) \/ Return(w)
    \/ \E c \in CaptureIds : ProcExit(c)

CeilingSpec == Init /\ [][CeilingNext]_vars

\* Captures started with a duration limit and left to the service: no stop,
\* status or delete request arrives.
TimerNext ==
    \/ \E w \in Workers :
          \/ BeginStart(w, MaxCaptures, TRUE) \/ StartInsert(w) \/ StartTrack(w)
          \/ StartFinish(w, FALSE) \/ Return(w)
    \/ \E c \in CaptureIds : TimerStop(c, FALSE) \/ ProcExit(c)

TimerSpec == Init /\ [][TimerNext]_vars

\* A request thread runs to its answer.
StartSteps(w) ==
    StartInsert(w) \/ StartTrack(w) \/ StartFinish(w, FALSE) \/ Return(w)

\* The same; a request that has begun is served to its end, and the timer
\* thread of a capture wakes up when its sleep is over.  A subprocess may
\* run on for ever.
TimerFairSpec ==
    /\ TimerSpec
    /\ \A w \in Workers : WF_vars(StartSteps(w))
    /\ \A c \in CaptureIds : WF_vars(TimerStop(c, FALSE))

\* Captures with a duration limit, stopped by clients and by their timers;
\* the kill sequence of a stop may raise.
StopNext ==
    \/ \E w \in Workers :
          \/ BeginStart(w, LifeCaptures, TRUE) \/ StartInsert(w) \/ StartTrack(w)
          \/ StartFinish(w, FALSE) \/ Stop(w, TRUE) \/ Return(w)
    \/ \E c \in CaptureIds : TimerStop(c, TRUE) \/ ProcExit(c)

StopSpec == Init /\ [][StopNext]_vars

\* Captures started and stopped, their subprocesses exiting, their
\* flush-monitor threads polling.
MonitorNext ==
    \/ \E w \in Workers :
          \/ BeginStart(w, LifeCaptures, FALSE) \/ StartInsert(w) \/ StartTrack(w)
          \/ StartFinishMonitored(w) \/ Stop(w, FALSE) \/ Return(w)
    \/ \E c \in CaptureIds : ProcExit(c) \/ monitor_and_flush(c)

MonitorSpec == Init /\ [][MonitorNext]_vars

\* The same; a flush-monitor thread wakes up from every sleep.
MonitorFairSpec ==
    MonitorSpec /\ \A c \in CaptureIds : WF_vars(monitor_and_flush(c))

\* The upload pipeline and the block/whitelist routes, requests interleaved.
UploadSpec == Init /\ [][UploadNext]_vars

\* The same, one request at a time, broadcasts failing.
SerialSpec == Init /\ [][SerialNext]_vars

\* The same, one request at a time, broadcasts going out.
NotifySpec == Init /\ [][NotifyNext]_vars

\* The upload pipeline and the block/whitelist routes over the days, one
\* request at a time.
DaysSpec == Init /\ [][DaysNext]_vars

\* Concurrent uploads alone.
RaceSpec == Init /\ [][RaceNext]_vars

\* Concurrent uploads and manual blocks.
BlocklistSpec == Init /\ [][BlocklistNext]_vars

\* Uploads one at a time, three alerts.
BurstSpec == Init /\ [][BurstNext]_vars

\* Concurrent uploads within the hour.
OrderSpec == Init /\ [][OrderNext]_vars

\* Uploads with their files, one request at a time.
FileSpec == Init /\ [][FileNext]_vars

\* The AI service, one caller, the key configured or not.
GeminiStart ==
    /\ PcapInit /\ UploadInit /\ GeminiInit /\ GeoInit /\ FnInit /\ FileInit
    /\ LaterInit
GeminiSpec == GeminiStart /\ [][GeminiNext]_vars

\* The same, a call that has begun keeps running.
GeminiFairSpec ==
    GeminiSpec /\ \A g \in GeminiCallers : WF_vars(CallSteps(g, FALSE))

\* The same, the document store failing.
GeminiFaultSpec == GeminiStart /\ [][GeminiFaultNext]_vars

\* Geolocation lookups of one address over the days.
GeoSpec == Init /\ [][GeoNext]_vars

\* sanitize_file_path on every path of up to MaxDepth components.
PathStart ==
    /\ PcapInit /\ UploadInit /\ api_key = TRUE /\ GeminiIdle /\ GeoInit
    /\ PathInit /\ confidence = 0 /\ priority = NoPriority /\ FileInit
    /\ LaterInit
PathNext == capture_file
PathSpec == PathStart /\ [][PathNext]_vars

\* The priority of every confidence from 0 to MaxConfidence.
PriorityStart ==
    /\ PcapInit /\ UploadInit /\ api_key = TRUE /\ GeminiIdle /\ GeoInit
    /\ filepath = [absolute |-> FALSE, parts |-> <<>>]
    /\ file_path = NoPath /\ written = NoPath
    /\ PriorityInit /\ FileInit /\ LaterInit
PriorityNext == Prioritise
PrioritySpec == PriorityStart /\ [][PriorityNext]_vars

\* validate_filter on every filter of up to MaxFilterLen characters.
FilterStart ==
    /\ PcapInit /\ UploadInit /\ api_key = TRUE /\ GeminiIdle /\ GeoInit
    /\ FnInit /\ FileInit /\ SweepInit /\ PatchInit /\ FilterInit
    /\ flush_thread = {} /\ LastInit
FilterNext == validate
FilterSpec == FilterStart /\ [][FilterNext]_vars

\* The alert routes, over the days.
PatchSpec == Init /\ [][PatchNext]_vars

\* Captures started, ended and swept over the days.
SweepSpec == Init /\ [][SweepNext]_vars

\* The AI service called by two request threads, the key configured.
AnalystsSpec == Init /\ [][AnalystsNext]_vars

\* One GET /api/alerts with a cidr filter, over every small collection.
ListStart ==
    /\ PcapInit /\ UploadInit /\ api_key = TRUE /\ GeminiIdle /\ GeoInit
    /\ FnInit /\ FileInit /\ SweepInit /\ PatchInit
    /\ filter_string = <<>> /\ validated = NotValidated
    /\ flush_thread = {} /\ LockInit /\ LimiterInit
    /\ listing \in {[NoListing EXCEPT !.alerts = a] : a \in Stored}
ListSpec == ListStart /\ [][ListNext]_vars

\* Request threads in the rate limiter of one service instance.
LimiterSpec == Init /\ [][LimiterNext]_vars

\* The threads of the capture service at its mutex.
LockSpec == Init /\ [][LockNext]_vars

\* The same, every thread that can take a step taking one in the end; a
\* thread waiting for the lock is promised nothing.
LockFairSpec ==
    LockSpec /\ \A t \in LockThreads : WF_vars(Call(t) \/ Body(t))

(***************************************************************************)
(* Properties of the capture service                                       *)
(***************************************************************************)

\* C1: once the status of a capture document is terminal ('stopped',
\* 'completed' or 'failed'), no step changes it again; the document can
\* only be deleted.
C1_TerminalStatusIsFinal ==
    [][\A c \in CaptureIds :
          captures[c] \in Terminal => captures'[c] \in {captures[c], "absent"}]_vars

\* A stop request by thread w in this step, and a single-capture status
\* request of w that answers in this step.
StopStep(w, c) ==
    thr[w].pc = "idle" /\ thr'[w].op = "stop" /\ thr'[w].cid = c

StatusAnswers(w) ==
    thr'[w].op = "status" /\ thr[w].pc # "done" /\ thr'[w].pc = "done"

\* C2: stop_capture for a tracked capture whose subprocess has exited on its
\* own is rejected with 'not running', and every get_capture_status(id) that
\* is called after that rejection and reports a status reports 'completed'.
C2_CompletedAfterRejectedStop ==
    [][\A w \in Workers :
          /\ \A c \in CaptureIds :
                StopStep(w, c) /\ c \in active_captures /\ process[c] = "exited"
                   => thr'[w].res = "not_running"
          /\ StatusAnswers(w) /\ thr'[w].late /\ thr'[w].res \in Status
                => thr'[w].res = "completed"]_vars

\* A start request by thread w in this step.
StartStep(w) == thr[w].pc = "idle" /\ thr'[w].op = "start"

\* C3: a start_capture call (one that passes the interface and filter
\* validation) made while MAX_CONCURRENT_CAPTURES tracked captures have a
\* live subprocess is rejected with the 'Maximum concurrent captures' error,
\* and no start call made then inserts a document, launches a subprocess or
\* adds an entry to the active table.
C3_StartRejectedAtLimit ==
    [][\A w \in Workers :
          StartStep(w)
          /\ active_count(active_captures, process) >= MAX_CONCURRENT_CAPTURES
          => /\ thr'[w].pc = "done"
             /\ thr'[w].res \in {"max_concurrent", "invalid_interface",
                                 "invalid_filter"}
             /\ thr'[w].cid = NoId
             /\ UNCHANGED <<captures, process, active_captures, nextId>>]_vars

\* C3, its case: a start request has just been answered 'Maximum concurrent
\* captures' with the ceiling reached.
C3_Witness ==
    \E w \in Workers :
       /\ thr[w].op = "start" /\ thr[w].pc = "done"
       /\ thr[w].res = "max_concurrent"
       /\ active_count(active_captures, process) >= MAX_CONCURRENT_CAPTURES

\* C4: the captures that are in the active table with a live subprocess
\* never number more than MAX_CONCURRENT_CAPTURES.
C4_AtMostMaxConcurrent ==
    active_count(active_captures, process) <= MAX_CONCURRENT_CAPTURES

(***************************************************************************)
(* Properties of the upload pipeline                                       *)
(***************************************************************************)
EvalPcs == {"sab_wl", "sab_count", "sab_find", "sab_insert", "sab_update"}

\* Thread u takes this step.
StepOf(u) == up'[u] # up[u]

\* The should_auto_block call of thread u returns in this step.
EvaluationEnds(u) == up[u].pc \in EvalPcs /\ up'[u].pc \notin EvalPcs

\* The entry is an active auto-block of the IP made at the threshold.
AutoBlocks(entry, ip) ==
    /\ entry.ip = ip
    /\ entry.auto_blocked
    /\ entry.is_active
    /\ entry.attack_count = AUTO_BLOCK_THRESHOLD

\* C5: with requests served one at a time, when the evaluation that follows
\* an alert insert returns for a non-empty, non-whitelisted IP that had no
\* Blocklist-Entry and now has AUTO_BLOCK_THRESHOLD alerts in the window, a
\* Blocklist-Entry for the IP exists with auto_blocked = true, is_active =
\* true and attack_count = AUTO_BLOCK_THRESHOLD.
C5_BlockedAtThreshold ==
    [][\A u \in Uploaders :
          LET ip == up[u].ip IN
          /\ EvaluationEnds(u)
          /\ ip # "" /\ ~check_ip_whitelisted(ip)
          /\ find_one(blocklist_collection, ip) = 0
          /\ count_documents(ip) = AUTO_BLOCK_THRESHOLD
          => \E i \in DOMAIN blocklist_collection' :
                AutoBlocks(blocklist_collection'[i], ip)]_vars

\* C5, its case: an upload has just inserted the alert that made the count
\* of an IP AUTO_BLOCK_THRESHOLD and the auto-block entry is there.
C5_Witness ==
    \E u \in Uploaders, ip \in RealIps :
       /\ up[u].op = "upload" /\ up[u].pc \in {"loop", "insert"}
       /\ up[u].new_alerts # <<>>
       /\ count_documents(ip) = AUTO_BLOCK_THRESHOLD
       /\ \E i \in DOMAIN blocklist_collection :
             AutoBlocks(blocklist_collection[i], ip)

\* C6: in every reachable state, concurrent auto-block evaluations and
\* manual POST /api/blocklist requests included, the blocklist holds at most
\* one Blocklist-Entry per IP.
C6_OneEntryPerIp ==
    \A i, j \in DOMAIN blocklist_collection :
       blocklist_collection[i].ip = blocklist_collection[j].ip => i = j

\* C6, its case: a manual POST /api/blocklist that had found no entry was
\* refused its insert because an auto-block evaluation of a concurrent
\* upload had inserted the entry of that IP in between.
C6_Witness ==
    \E u \in Uploaders :
       /\ up[u].op = "block" /\ up[u].pc = "done" /\ up[u].res = "error500"
       /\ \E i \in DOMAIN blocklist_collection :
             /\ blocklist_collection[i].ip = up[u].ip
             /\ blocklist_collection[i].auto_blocked

\* C7: while an active Whitelist-Entry exists for an IP, no step of an
\* upload inserts an alert for a record of that IP, and no step of
\* should_auto_block for that IP changes the blocklist.
C7_WhitelistedIpUntouched ==
    [][\A u \in Uploaders :
          LET ip == up[u].ip IN
          up[u].op = "upload" /\ StepOf(u) /\ check_ip_whitelisted(ip)
          => /\ alerts_collection'[ip] = alerts_collection[ip]
             /\ blocklist_collection' = blocklist_collection]_vars

\* C8: every step of should_auto_block that changes the blocklist (a new
\* Blocklist-Entry, or an inactive one reactivated) broadcasts one
\* ip_blocked event for the IP.
C8_BlockChangeBroadcast ==
    [][\A u \in Uploaders :
          /\ up[u].op = "upload" /\ StepOf(u)
          /\ blocklist_collection' # blocklist_collection
          => ip_blocked'[up[u].ip] = ip_blocked[up[u].ip] + 1]_vars

C10_EmitFailureHarmless ==
    \A u \in Uploaders :
       up[u].op = "upload" /\ up[u].pc = "done" => up[u].res = "success"

(***************************************************************************)
(* Properties of the AI threat-intelligence service                        *)
(***************************************************************************)
\* C11: with a single caller, at most RATE_LIMIT_PER_MINUTE calls come
\* back from _check_rate_limit without sleeping in any 60-second interval:
\* the calls let through without sleeping during the last 60 seconds are
\* never more than RATE_LIMIT_PER_MINUTE.
C11_AtMostLimitPerInterval == Len(admitted) <= RATE_LIMIT_PER_MINUTE

\* The call before the one caller g is in, for the same cache key.
Earlier(g) ==
    IF gem[g].cache_key \in CacheKeys THEN previous[gem[g].cache_key] ELSE NoCall

\* Caller g's call is answered from the cache with what the earlier call
\* returned, without a request to the model.
ServedFromCache(g) ==
    /\ gem[g].pc = "done"
    /\ gem[g].res.kind = "cached"
    /\ gem[g].res.analysis = Earlier(g).analysis
    /\ gem[g].posts = 0

\* C12 as stated: an analyze_threat call for an alert made within CACHE_TTL
\* seconds of an earlier one for the same alert returns what the earlier
\* call returned and sends no request to the model, whatever the earlier
\* call's model invocation came to.
C12_SecondCallServedFromCache ==
    \A g \in GeminiCallers :
        (/\ gem[g].pc # "idle"
         /\ Earlier(g).kind # "none"
         /\ gem[g].at - Earlier(g).at <= CACHE_TTL) => ServedFromCache(g)

\* C12, amended: when the earlier call's model invocation succeeded and its
\* analysis was stored, a call for the same alert made within CACHE_TTL
\* seconds of the storing returns that stored analysis and sends no request
\* to the model.
C12_StoredAnalysisServedFromCache ==
    \A g \in GeminiCallers :
        (/\ gem[g].pc # "idle"
         /\ Earlier(g).kind = "fresh"
         /\ gem[g].at - Earlier(g).at <= CACHE_TTL) => ServedFromCache(g)

\* A call made exactly CACHE_TTL seconds after the earlier call stored its
\* analysis has been answered from the cache.
C12_Witness ==
    \E g \in GeminiCallers :
        /\ Earlier(g).kind = "fresh"
        /\ gem[g].at - Earlier(g).at = CACHE_TTL
        /\ ServedFromCache(g)

\* The requests and backoff sleeps of caller g's _call_gemini_api so far:
\* one sleep per retry, RETRY_DELAY * 2^k before retry k (k = 0, 1, ...),
\* a request before every sleep, at most MAX_RETRIES + 1 requests, and
\* "call failed" only after MAX_RETRIES retries.
BoundedRetries(g) ==
    /\ gem[g].posts <= MAX_RETRIES + 1
    /\ Len(gem[g].sleeps) = gem[g].retry_count
    /\ \A k \in 1..Len(gem[g].sleeps) : gem[g].sleeps[k] = RETRY_DELAY * (2 ^ (k - 1))
    /\ gem[g].posts \in {Len(gem[g].sleeps), Len(gem[g].sleeps) + 1}
    /\ gem[g].call = "call_failed" =>
          /\ gem[g].posts = MAX_RETRIES + 1
          /\ Len(gem[g].sleeps) = MAX_RETRIES
    /\ gem[g].call \in {"returned", "bad_format"} =>
          gem[g].posts = Len(gem[g].sleeps) + 1

\* Once a request has succeeded, the invocation sends no other.
NoAttemptAfterSuccess(g) ==
    gem[g].call = "returned" =>
        gem'[g].posts = gem[g].posts \/ gem'[g] = IdleCaller

\* C13: every _call_gemini_api ends; it sends at most MAX_RETRIES + 1
\* requests; when every request fails with a transport error it retries
\* exactly MAX_RETRIES times, sleeping RETRY_DELAY * 2^k before retry k,
\* and then raises "call failed"; after the first request that succeeds
\* it sends no further request.
C13_CallTerminates ==
    /\ [](\A g \in GeminiCallers : BoundedRetries(g))
    /\ [][\A g \in GeminiCallers : NoAttemptAfterSuccess(g)]_vars
    /\ \A g \in GeminiCallers :
          (gem[g].call = "running") ~> (gem[g].call # "running")

\* A call has failed after MAX_RETRIES retries.
C13_Witness ==
    \E g \in GeminiCallers :
        /\ gem[g].call = "call_failed"
        /\ Len(gem[g].sleeps) = MAX_RETRIES
        /\ gem[g].posts = MAX_RETRIES + 1

\* Caller g takes the first step of a _call_gemini_api, no key configured.
CallWithoutKey(g) ==
    /\ ~api_key
    /\ gem[g].pc = "call"
    /\ gem'[g] # gem[g]

\* C14: with no API key configured, _call_gemini_api raises the
\* "not configured" error at once: no request is sent, nothing is retried,
\* no time is spent sleeping, and the limiter's counter and window start
\* are as they were.
C14_NoKeyRaisesAtOnce ==
    [][\A g \in GeminiCallers :
          CallWithoutKey(g) =>
             /\ gem'[g].call = "not_configured"
             /\ gem'[g].res.error = "Gemini API key not configured"
             /\ gem'[g].posts = 0
             /\ gem'[g].retry_count = 0
             /\ gem'[g].sleeps = <<>>
             /\ clock' = clock
             /\ request_count' = request_count
             /\ request_window_start' = request_window_start]_vars

\* A call has raised "not configured".
C14_Witness ==
    \E g \in GeminiCallers :
        /\ ~api_key
        /\ gem[g].call = "not_configured"
        /\ gem[g].posts = 0
        /\ request_count = 0

\* C15: analyze_threat and enrich_ip_reputation never raise to their
\* caller: a call that has ended has returned an analysis (from the cache
\* or from the model) or, after any failure, the fallback result with
\* threat_level "medium" and the error text.
C15_NeverRaises ==
    \A g \in GeminiCallers :
        gem[g].pc = "done" =>
            \/ gem[g].res.kind \in {"cached", "fresh"}
            \/ /\ gem[g].res.kind = "fallback"
               /\ gem[g].res.analysis.threat_level = "medium"
               /\ gem[g].res.error # "none"

(***************************************************************************)
(* Properties of the geolocation cache                                     *)
(***************************************************************************)
\* C16: a get_ip_geolocation call that found a cache row returned the
\* cached value without an API request when the row was less than
\* GEO_CACHE_DAYS days old; for an older row it sent the request, and when
\* the refresh failed for any reason (status 429, timeout, any other error
\* or response other than success) it returned the stale cached value.
C16_StaleValueOnFailedRefresh ==
    (geo.valid /\ geo.cached.present) =>
        IF geo.cached.days < GEO_CACHE_DAYS
        THEN ~geo.requested /\ geo.result = geo.cached.data
        ELSE /\ geo.requested
             /\ geo.outcome # "200" => geo.result = geo.cached.data

(***************************************************************************)
(* Properties of the capture file path and of the alert priority           *)
(***************************************************************************)
\* The path is absolute by construction; it names a place at or below the
\* storage root: it starts with the root's components and has no `..`.
InsideRoot(parts) ==
    /\ Len(parts) >= Len(PCAP_STORAGE_PATH)
    /\ \A i \in 1..Len(PCAP_STORAGE_PATH) : parts[i] = PCAP_STORAGE_PATH[i]
    /\ \A i \in 1..Len(parts) : parts[i] # ".."

\* C17: sanitize_file_path either returns an absolute path inside the
\* storage root or raises ValueError, never a path outside the root; the
\* file start_capture has its subprocess write is inside the root.
C17_PathInsideRoot ==
    /\ file_path.status \in {"none", "ok", "ValueError"}
    /\ file_path.status = "ok" => InsideRoot(file_path.parts)
    /\ written.status = "ok" => InsideRoot(written.parts)
    /\ written.status = "ok" => file_path = written
    /\ file_path.status = "ValueError" => written = NoPath

\* A path with `..` in it that leads back into the root has been accepted,
\* and the file is written below the root.
C17_Witness ==
    /\ \E i \in 1..Len(filepath.parts) : filepath.parts[i] = ".."
    /\ file_path.status = "ok"
    /\ Len(written.parts) > Len(PCAP_STORAGE_PATH)

\* The label of each range of confidences.
PriorityOf(conf) ==
    CASE conf \in 90..100 -> "critical"
      [] conf \in 75..89  -> "high"
      [] conf \in 60..74  -> "medium"
      [] conf \in 0..59   -> "low"
      [] OTHER            -> "unspecified"

\* C19: for every confidence from 0 to 100 the priority is critical for
\* 90..100, high for 75..89, medium for 60..74 and low for 0..59, and
\* get_priority gives the label AlertDocument.create assigns by default.
C19_PriorityByConfidence ==
    (priority # NoPriority /\ confidence \in 0..100) =>
        /\ priority.route = PriorityOf(confidence)
        /\ priority.default = priority.route
        /\ priority.document = priority.route

\* The priority of confidence 90, the lowest that is critical, is computed.
C19_Witness ==
    /\ confidence = 90
    /\ priority.route = "critical"
    /\ priority.default = "critical"

(***************************************************************************)
(* Properties of the upload route's checks                                 *)
(***************************************************************************)
\* The extension of a file name: what follows its last dot, none when the
\* name has no dot; compared without regard to case.
ExtensionOutside(filename) ==
    \/ Len(filename) < 2
    \/ lower(filename[Len(filename)]) \notin valid_extensions

\* The step is an upload request that was answered without any record gone
\* through: no alert, no blocklist entry, no event.
AnsweredEmptyHanded ==
    /\ alerts_collection' = alerts_collection
    /\ blocklist_collection' = blocklist_collection
    /\ ip_blocked' = ip_blocked
    /\ up' = up

\* C18: an upload whose file name has an extension outside pcap, pcapng,
\* log, txt is answered 400, the file saved for it is removed again and no
\* alert is created; an upload whose file parses to zero records is
\* answered 400 and creates no alert, no blocklist entry and no event.
C18_RejectedUploadLeavesNothing ==
    [][received' # received =>
          /\ ExtensionOutside(received'.filename) =>
                /\ received'.res = "400 Invalid file type"
                /\ ~received'.saved
                /\ AnsweredEmptyHanded
          /\ received'.parsed = "empty" =>
                /\ received'.res = "400 No records found in file"
                /\ AnsweredEmptyHanded]_vars

(***************************************************************************)
(* Properties of the blocklist and whitelist documents                     *)
(***************************************************************************)
\* From coll to coll2 no document is removed and none changes its ip or
\* its created_at; a document that is deactivated changes in nothing but
\* is_active.
RowsKept(coll, coll2) ==
    /\ Len(coll2) >= Len(coll)
    /\ \A i \in DOMAIN coll :
          /\ coll2[i].ip = coll[i].ip
          /\ coll2[i].created_at = coll[i].created_at
          /\ (coll[i].is_active /\ ~coll2[i].is_active) =>
                coll2[i] = [coll[i] EXCEPT !.is_active = FALSE]
    /\ {coll[i].ip : i \in DOMAIN coll} \subseteq {coll2[i].ip : i \in DOMAIN coll2}

\* C20: no step removes a Blocklist-Entry or a Whitelist-Entry document:
\* a DELETE sets is_active to false and leaves the ip, the reason and
\* created_at of the document as they were, so the set of IPs that have a
\* document in either collection never shrinks.
C20_RowsNeverRemoved ==
    [][/\ RowsKept(blocklist_collection, blocklist_collection')
       /\ RowsKept(whitelist_collection, whitelist_collection')]_vars

\* DELETE has been served on a Blocklist-Entry made the day before and on
\* a Whitelist-Entry, and both documents are still there.
C20_Witness ==
    /\ \E i \in DOMAIN blocklist_collection :
          /\ ~blocklist_collection[i].is_active
          /\ blocklist_collection[i].created_at < today
    /\ \E i \in DOMAIN whitelist_collection : ~whitelist_collection[i].is_active

\* C24: a capture started successfully with a duration limit (its timer
\* thread is running) is stopped by the service itself: with no further
\* client request its document eventually has a terminal status and its
\* entry has left the active table, also when the subprocess exits on its
\* own before the timer fires.
C24_TimerEndsCapture ==
    \A c \in CaptureIds :
       (c \in timer) ~> (captures[c] \in Terminal /\ c \notin active_captures)

\* The start_capture call of thread w fails in this step, its document
\* inserted.
StartFails(w) == thr[w].res # "start_failed" /\ thr'[w].res = "start_failed"

\* C28: whenever start_capture fails after it has inserted the capture
\* document (the subprocess cannot be launched, it exits within the 0.5 s
\* check, or a later step raises), the document ends with status 'failed'
\* and the capture has no entry in the active table and no live subprocess.
C28_FailedStartLeavesNothingRunning ==
    [][\A w \in Workers :
          StartFails(w) =>
             LET c == thr'[w].cid IN
             /\ captures'[c] = "failed"
             /\ c \notin active_captures'
             /\ process'[c] # "live"]_vars

\* The capture is in the active table with a live subprocess.
Tracked(c) == c \in active_captures /\ process[c] = "live"

\* C29: the flush-monitor thread of a capture keeps polling exactly as long
\* as the capture is in the active table with a live subprocess: it does not
\* terminate while that is so, and once the subprocess has exited or the
\* entry has been removed it eventually terminates.
C29_MonitorEndsWithCapture ==
    /\ [][\A c \in CaptureIds :
             c \in flush_thread /\ c \notin flush_thread' => ~Tracked(c)]_vars
    /\ \A c \in CaptureIds :
          (c \in flush_thread /\ ~Tracked(c)) ~> (c \notin flush_thread)

\* C29, its case: the thread of a capture whose subprocess has exited, the
\* capture still in the active table, has terminated, while the thread of
\* another capture, in the table with a live subprocess, polls on.
C29_Witness ==
    \E c, d \in CaptureIds :
       /\ c \in active_captures /\ process[c] = "exited"
       /\ captures[c] = "running" /\ c \notin flush_thread
       /\ Tracked(d) /\ d \in flush_thread

\* C30: in every reachable state, under any interleaving of start, stop,
\* status and delete requests, a capture that is in the active table with a
\* live subprocess has a Pcap-Capture document whose status is 'running'.
C30_TrackedCaptureIsRunning ==
    \A c \in CaptureIds : Tracked(c) => captures[c] = "running"

(***************************************************************************)
(* Properties of the cleanup sweep                                         *)
(***************************************************************************)
\* A capture the sweep has to spare: its status is 'running', or its
\* created_at is not older than the day threshold.
Spared(c) ==
    /\ exists(c)
    /\ \/ captures_collection[c].status = "running"
       \/ captures_collection[c].created_at >= utcnow - days_threshold

\* C21: cleanup_old_captures removes only captures whose status is
\* 'stopped', 'completed' or 'failed' and whose created_at is older than the
\* day threshold: no step removes the document or the file of a capture
\* whose status is 'running' or that is younger than the threshold.
C21_SweepSparesRunningAndYoung ==
    [][\A c \in SweepIds :
          Spared(c) =>
             /\ captures_collection'[c] # Deleted
             /\ captures_collection[c].file_path \in disk
                   => captures_collection[c].file_path \in disk']_vars

(***************************************************************************)
(* Properties of concurrent uploads                                        *)
(***************************************************************************)
\* A should_auto_block call for the IP is under way.
Evaluating(u, ip) == up[u].ip = ip /\ up[u].pc \in EvalPcs

\* Upload u has inserted an alert and is about to count the alerts of the
\* IP, which have reached the threshold in the window with what another
\* upload in progress has inserted; the IP has no Blocklist-Entry and no
\* active Whitelist-Entry.
LastEvaluation(u) ==
    /\ up[u].pc = "sab_count"
    /\ count_documents(up[u].ip) >= AUTO_BLOCK_THRESHOLD
    /\ Len(up[u].new_alerts) < AUTO_BLOCK_THRESHOLD
    /\ \E v \in Uploaders \ {u} :
          /\ up[v].op = "upload"
          /\ up[v].new_alerts # <<>>
          /\ Len(up[v].new_alerts) < AUTO_BLOCK_THRESHOLD
    /\ find_one(blocklist_collection, up[u].ip) = 0
    /\ ~check_ip_whitelisted(up[u].ip)

\* The evaluation of u counts fewer alerts than the threshold and returns.
CountsFewer(u) == SabCount(u) /\ up'[u].pc # "sab_find"

\* C22 as stated: two simultaneous uploads have inserted alerts for the same
\* non-whitelisted, unblocked IP that jointly reach the threshold within the
\* window, and the evaluation still to run can count fewer alerts than the
\* threshold, as all the evaluations before it did, leaving the IP unblocked.
C22_EvaluationMayMissThreshold ==
    \A u \in Uploaders : LastEvaluation(u) => ENABLED CountsFewer(u)

\* C22 as amended: no interleaving of simultaneous uploads misses the
\* threshold.  Whenever the alerts stored for an IP in the window reach the
\* threshold, the IP has a Blocklist-Entry or an evaluation that follows the
\* latest insert is still under way; the evaluation counts every alert
\* stored at that moment, those of the other upload included.
C22_ThresholdNotMissed ==
    \A ip \in RealIps :
       count_documents(ip) >= AUTO_BLOCK_THRESHOLD =>
          \/ find_one(blocklist_collection, ip) # 0
          \/ \E u \in Uploaders : Evaluating(u, ip)

\* C22, its case: two uploads in progress have each inserted one alert for
\* the IP, fewer than the threshold each and the threshold jointly, and the
\* evaluation after the second insert has auto-blocked the IP.
C22_Witness ==
    \E ip \in RealIps :
       /\ \A u \in Uploaders :
             up[u].op = "upload" /\ Len(up[u].new_alerts) = 1
       /\ Len(alerts_collection[ip]) = AUTO_BLOCK_THRESHOLD
       /\ count_documents(ip) = AUTO_BLOCK_THRESHOLD
       /\ \A u \in Uploaders : ~Evaluating(u, ip)
       /\ \E i \in DOMAIN blocklist_collection :
             AutoBlocks(blocklist_collection[i], ip)

\* The alerts the request of u has inserted so far for the IP.
Own(t, ip) == Cardinality({i \in DOMAIN t.src_ips : t.src_ips[i] = ip})

\* Upload u inserts an alert in this step.
Inserts(u) == Len(up'[u].new_alerts) > Len(up[u].new_alerts)

Patches(ids, body, fields) ==
    \A i \in AlertIds :
          LET old == alert_documents[i]
              new == alert_documents'[i]
          IN  IF i \in ids /\ old # NoAlert
              THEN /\ new.updated_at = utcnow
                   /\ \A f \in DOMAIN old \ {"updated_at"} :
                         new[f] = IF f \in fields \cap body THEN Sent[f]
                                  ELSE old[f]
              ELSE new = old

\* C25: PATCH /api/alerts/<id> changes at most status, priority and notes
\* of the addressed alert, each only when the body has it, always refreshes
\* its updated_at, and leaves every other field and every other alert
\* unchanged; PATCH /api/alerts/bulk changes at most status and priority
\* (and updated_at) of the listed alerts and nothing else.
C25_PatchWritesOnlyItsFields ==
    [][/\ \A id \in AlertIds, data \in Bodies :
             alert_detail_patch(id, data) =>
                Patches({id}, data, {"status", "priority", "notes"})
       /\ \A alert_ids \in SUBSET AlertIds, updates \in Bodies :
             bulk_update_alerts(alert_ids, updates) =>
                Patches(alert_ids, updates, {"status", "priority"})]_vars

\* C25, its case: after a PATCH of one of two alerts whose body carried
\* every field, on a later day than the alerts were created: the status, the
\* priority and the notes are written and updated_at is refreshed, the
\* confidence is as it was, and the other alert is as it was created.
C25_Witness ==
    \E i, j \in AlertIds :
       /\ alert_documents[i] =
             [status |-> "resolved", priority |-> "high", notes |-> "seen",
              confidence |-> 50, updated_at |-> today]
       /\ today > 0
       /\ alert_documents[j] =
             [status |-> "new", priority |-> "low", notes |-> "",
              confidence |-> 50, updated_at |-> 0]

(***************************************************************************)
(* Properties of validate_filter                                           *)
(***************************************************************************)
\* The character at i stands in a run of that character of even length:
\* it belongs to a doubled operator.
Doubled(s, i) ==
    LET same(j) == j \in 1..Len(s) /\ s[j] = s[i]
        first == CHOOSE j \in 1..i :
                    /\ \A k \in j..i : same(k)
                    /\ ~same(j - 1)
        last == CHOOSE j \in i..Len(s) :
                    /\ \A k \in i..j : same(k)
                    /\ ~same(j + 1)
    IN  (last - first + 1) % 2 = 0

\* The filters the claim lets pass.
Acceptable(s) ==
    \/ s = <<>>
    \/ /\ Len(s) <= MAX_FILTER_CHARS
       /\ \A i \in 1..Len(s) : s[i] \notin {";", "bq", ">", "<"}
       /\ \A i \in 1..(Len(s) - 1) : ~(s[i] = "$" /\ s[i + 1] = "(")
       /\ \A i \in 1..Len(s) : s[i] \in {"&", "|"} => Doubled(s, i)

\* C26: validate_filter accepts a filter exactly when it is empty, or it is
\* at most 1000 characters long (3 in the model), contains none of ';',
\* backtick, '$(', '>' and '<', and every '&' and every '|' belongs to a
\* doubled '&&' or '||'; every other filter is rejected with an error
\* message.
C26_FilterAcceptedExactlyWhenSafe ==
    validated # NotValidated =>
       /\ validated.is_valid <=> Acceptable(filter_string)
       /\ validated.is_valid <=> validated.error_message = "None"

\* C26, its case: a filter with a doubled operator and a single one of the
\* same character has been rejected.
C26_Witness ==
    /\ filter_string = <<"&", "&", "&">>
    /\ validated = [is_valid |-> FALSE,
                    error_message |-> "Invalid character in filter"]

(***************************************************************************)
(* Properties of should_auto_block                                         *)
(***************************************************************************)
\* The step creates a Blocklist-Entry for the IP or makes an inactive one
\* active.
BlockStateChanges(ip) ==
    LET e == find_one(blocklist_collection, ip) IN
    IF e = 0 THEN find_one(blocklist_collection', ip) # 0
    ELSE ~blocklist_collection[e].is_active /\ blocklist_collection'[e].is_active

\* C27: should_auto_block returns true exactly when the call changed block
\* state, by creating a Blocklist-Entry or by reactivating an inactive one;
\* when it returns false (the IP empty or whitelisted, the count below the
\* threshold, the entry already active) the blocklist collection is
\* unchanged.
C27_ReturnsTrueIffBlockChanged ==
    [][\A u \in Uploaders :
          LET ip == up[u].ip IN
          \* return False at line 258 and at line 309
          /\ up[u].pc \in {"sab_wl", "sab_count", "sab_find"} /\ EvaluationEnds(u)
                => blocklist_collection' = blocklist_collection
          \* lines 272-300
          /\ \A o \in EmitOutcomes(TRUE) :
                SabInsertEmit(u, o) =>
                   IF returns_after_insert(find_one(blocklist_collection, ip) = 0, o)
                   THEN BlockStateChanges(ip)
                   ELSE blocklist_collection' = blocklist_collection
          \* return True at line 307
          /\ SabUpdate(u) => BlockStateChanges(ip)]_vars

(***************************************************************************)
(* Properties of the capture service, continued                            *)
(***************************************************************************)
\* The delete route of thread w answers success in this step.
DeleteAnswers(w) ==
    thr[w].op = "delete" /\ thr[w].pc = "delete_doc" /\ thr'[w].pc = "done"

\* C31: when DELETE /api/pcap/delete/<capture_id> answers success, the
\* document of the capture is gone, and no entry in the active table and no
\* live capture subprocess remains for that capture id.
C31_DeletedCaptureLeavesNothing ==
    [][\A w \in Workers :
          DeleteAnswers(w) =>
             LET c == thr[w].cid IN
             /\ captures'[c] = "absent"
             /\ c \notin active_captures'
             /\ process'[c] # "live"]_vars

\* A client's stop_capture(c) call, made and answered by thread w in this
\* step.
ClientStops(w, c) ==
    thr[w].pc = "idle" /\ thr'[w].op = "stop" /\ thr'[w].cid = c

\* The duration timer of capture c wakes and calls stop_capture(c) in this
\* step.
TimerStops(c) == c \in timer /\ c \notin timer'

\* The call has gone through the stop: the subprocess killed, the document
\* 'stopped', the entry removed.
PerformsStop(c) ==
    /\ process[c] = "live" /\ process'[c] = "exited"
    /\ captures' = update_status(captures, c, "stopped")
    /\ active_captures' = active_captures \ {c}

\* The call has been turned away and has written nothing.
RejectedStop == UNCHANGED <<captures, active_captures, process, recount>>

NoReentry == \A t \in LockThreads : locker[t].pc = "wait" => lock # t

\* The lock is held only by a thread inside the body of a with-statement.
HeldInBody == lock # "free" => locker[lock].pc = "held"

\* C33: no interleaving of request threads (start, stop, status, delete),
\* flush-monitor, duration-timer and recount threads deadlocks on the mutex
\* of the capture service: no thread requests the mutex while it holds it,
\* only a thread inside a guarded body holds it, and every thread that holds
\* it releases it after the steps of the body, at most four, also when the
\* body raises.
C33_MutexNeverDeadlocks ==
    /\ [](NoReentry /\ HeldInBody)
    /\ \A t \in LockThreads : (lock = t) ~> (lock # t)

\* C33, its case: the timer thread is inside the kill sequence of
\* stop_capture while both request threads and the flush-monitor thread wait
\* for the lock.
C33_Witness ==
    /\ lock = "timer" /\ locker["timer"].left = 2
    /\ \A t \in RequestThreads \cup {"flush"} : locker[t].pc = "wait"

(***************************************************************************)
(* Properties of the upload pipeline and the lists, continued              *)
(***************************************************************************)
\* C34: with uploads processed one at a time, no alert is inserted for a
\* source IP that has an active Blocklist-Entry at the moment of the insert.
C34_NoAlertForBlockedIp ==
    [][\A u \in Uploaders :
          Inserts(u) => ~check_ip_blocked(up[u].ip)]_vars

\* C35: in every reachable state no IP has an active Whitelist-Entry and an
\* active Blocklist-Entry at the same time.
C35_NeverWhitelistedAndBlocked ==
    \A ip \in RealIps : ~(check_ip_whitelisted(ip) /\ check_ip_blocked(ip))

\* Thread u leaves the position `pc` in this step.
Leaves(u, pc) == up[u].pc = pc /\ up'[u].pc # pc

\* The step changes, of the Blocklist-Entries there are, the fields in
\* `fields` at most, and removes none.
WritesOnly(fields) ==
    \A i \in DOMAIN blocklist_collection :
       /\ i \in DOMAIN blocklist_collection'
       /\ \A k \in DOMAIN blocklist_collection[i] \ fields :
             blocklist_collection'[i][k] = blocklist_collection[i][k]

\* C36: the auto_blocked flag of a Blocklist-Entry is fixed at creation.  A
\* manual POST /api/blocklist on an existing entry changes only is_active
\* and reason, an automatic reactivation changes only is_active and
\* attack_count, and no step changes auto_blocked, ip or created_at of an
\* entry.
C36_AutoBlockedFixedAtCreation ==
    [][/\ WritesOnly({"is_active", "reason", "attack_count"})
       /\ \A u \in Uploaders :
             /\ Leaves(u, "block_write") => WritesOnly({"is_active", "reason"})
             /\ Leaves(u, "sab_update")
                   => WritesOnly({"is_active", "attack_count"})]_vars

\* C36, its case: an entry created by the auto-block policy on an earlier
\* day has since been written by a manual POST /api/blocklist.
C36_Witness ==
    \E i \in DOMAIN blocklist_collection :
       LET b == blocklist_collection[i] IN
       /\ b.auto_blocked /\ b.is_active /\ b.created_at < today
       /\ b.reason = "Manually blocked"

(***************************************************************************)
(* Properties of the AI service, continued                                 *)
(***************************************************************************)
\* A call of _check_rate_limit returns in this step.
LimiterReturns(t) == limiter[t].pc = "store" /\ limiter'[t].pc = "idle"

\* C37: when several request threads call the rate limiter concurrently on
\* the same service instance, the number of calls admitted between two
\* consecutive resets of the window never exceeds RATE_LIMIT_PER_MINUTE, and
\* after every return of _check_rate_limit the counter satisfies
\* 1 <= request_count <= RATE_LIMIT_PER_MINUTE.
C37_LimiterHoldsUnderConcurrency ==
    [][\A t \in LimiterThreads :
          LimiterReturns(t) =>
             /\ since_reset' <= RATE_LIMIT_PER_MINUTE
             /\ 1 <= request_count'
             /\ request_count' <= RATE_LIMIT_PER_MINUTE]_vars

\* The distance in time of two moments.
Apart(a, b) == IF a >= b THEN a - b ELSE b - a

\* C38: for every cache key at most one analysis document with that key is
\* created within any CACHE_TTL window, also when two analyze_threat calls
\* for the same key run concurrently.
C38_OneAnalysisPerTtl ==
    \A i, j \in DOMAIN threat_intel_collection :
       i # j /\ threat_intel_collection[i].cache_key
                  = threat_intel_collection[j].cache_key
       => Apart(threat_intel_collection[i].created_at,
                threat_intel_collection[j].created_at) > CACHE_TTL

\* The service call of g has returned to the route with an analysis.
Answered(g) ==
    gem[g].pc = "done" /\ gem[g].res.kind \in {"fresh", "cached", "fallback"}

\* C39: the analysis and the analysis_id that POST /api/gemini/analyze returns
\* belong to the analysis that the request's own service call produced or
\* found in the cache, never to a stored analysis that was outside the cache
\* TTL when the request arrived.
C39_AnswerIsOwnAnalysis ==
    \A g \in GeminiCallers :
       Answered(g) =>
          LET r == analyze_response(gem[g].cache_key, gem[g].res.analysis)
          IN  /\ r.analysis = gem[g].res.analysis
              /\ r.analysis_id # 0 =>
                    within_ttl(threat_intel_collection[r.analysis_id].created_at,
                               gem[g].at)

\* The alerts of the collection whose src_ip lies in the cidr of the request.
InCidr ==
    {i \in 1..Len(listing.alerts) :
        check_ip_in_cidr(listing.alerts[i], listing.cidr)}

\* What the request may return at most: min(L, 1000).
Wanted == IF listing.limit < MAX_LIMIT THEN listing.limit ELSE MAX_LIMIT

Answer == {listing.out[k] : k \in 1..Len(listing.out)}

\* C40: GET /api/alerts with a cidr filter and a limit L returns the
\* min(L, 1000) most recent alerts among those whose src_ip lies in the cidr:
\* whenever at least that many alerts lie in it, that many are returned, the
\* latest first.
C40_CidrFilterFillsLimit ==
    listing.pc = "done" /\ Cardinality(InCidr) >= Wanted =>
       /\ Len(listing.out) = Wanted
       /\ Answer \subseteq InCidr
       /\ \A i \in InCidr \ Answer : \A j \in Answer : j < i
       /\ \A k \in 1..(Len(listing.out) - 1) : listing.out[k] < listing.out[k + 1]

====
